---- MODULE Spec2Model ----
(***************************************************************************)
(* A model of the position and balance aggregation code of the DeFi        *)
(* dashboard: the multicall read batcher (utils/multicall.ts), the token   *)
(* service's cache and retry wrapper (services/tokenService.ts), the price *)
(* service's fetchWithRetry (services/priceService.ts), the protocol       *)
(* resolvers (services/{aave,compound,lido,yearn}Service), the request     *)
(* handlers of the server, the CLI and index.ts, and the token service's   *)
(* getTokenBalances.                                                       *)
(*                                                                         *)
(* Each component has its own specification over its own variables; the    *)
(* variables of the other components keep their initial value.             *)
(***************************************************************************)
EXTENDS Integers, Sequences, FiniteSets, TLC

VARIABLES
  \* ---- Multicall.batchCall
  mcPc,        \* "start" | "awaiting" (aggregate3.staticCall pending) | "done"
  mcCalls,     \* the MulticallCall[] argument
  mcTransport, \* what the aggregate3 call did: "none" | "returned" | "failed"
  mcRaw,       \* the (success, returnData) pairs aggregate3 returned
  mcResults,   \* the CallResult[] batchCall returned
  mcThrew,     \* TRUE when batchCall raised to its caller
  mcNetCalls,  \* number of aggregate3 calls sent to the RPC endpoint
  \* ---- TokenService.getWithCache / withRetry
  now,         \* Date.now(), in units of half a CACHE_TTL
  cache,       \* TokenService.cache: key -> {data, expiry}
  gw,          \* the getWithCache calls: one record per call
  \* ---- priceService fetchWithRetry
  fwPc,        \* "idle" | "inflight" | "backoff" | "returned" | "threw"
  fwSite,      \* which request of calculatePortfolioValue is being made
  fwI,         \* the loop index i
  fwLog,       \* the outcome of every axios.get made so far
  fwWait,      \* the backoff (ms) being waited for
  \* ---- the protocol resolvers' getPositions
  posProto,    \* the resolver running: "none" | "aave" | "compound" | "lido" | "yearn"
  posPc,       \* "idle" | "batch" | "running" | "done" | "threw"
  posN,        \* number of objects (reserves, markets, vaults, tokens) to resolve
  posIdx,      \* number of objects resolved so far
  posOut,      \* the positions array
  posSupported,\* whether the connected chain has a configuration entry
  posFailed,   \* the objects whose reads threw
  posResults,  \* Compound: what batchCall returned, one result per call
  \* ---- the request handlers: GET /tokens, GET /positions, the CLI's
  \* ---- positions command and index.ts main
  rqKind,      \* "none" | "tokens" | "positions" | "cli" | "main"
  rqPc,        \* "idle" | "dispatch" | "done"
  rqWallet,    \* the walletAddress the request came with
  rqTargets,   \* the chains or protocols the request resolves, in order
  rqIdx,       \* number of branches handled so far
  rqReport,    \* per branch: "none" | "data" | "error"
  rqStatus,    \* "none" | "200" | "400" | "500" | "exit0" | "exit1"
  rqBuilt,     \* the protocols a resolver was constructed for
  rqUpstream,  \* the branches an upstream call was made for
  rqFault,     \* per chain of GET /tokens, what went wrong while it was read
  rqUsage,     \* the usage text the CLI printed: "none" | "program" | a command
  rqListening, \* whether startServer was called
  rqArgv,      \* the command line the CLI was started with
  \* ---- TokenService.getTokenBalances / getNativeBalance
  tbPc,        \* "idle" | "discover" | "native" | "tokens" | "batch" | "pause" | "done"
  tbChain,     \* the chain argument
  tbKey,       \* whether the environment has the chain's explorer API key
  tbDiscovery, \* "none" | "skipped" | "ok" | "failed"
  tbTokens,    \* number of discovered tokens; token i is the i-th of them
  tbIdx,       \* number of discovered tokens handled so far
  tbResult,    \* result: entry 0 is 'native', entry i is token i's address
  tbExplorer,  \* the block-explorer actions requested
  tbRpc,       \* the RPC methods called
  tbNative,    \* where the native balance came from
  tbAnswers,   \* what the cache, the explorer and the RPC had for it
  tbFetched,   \* per token, what its balance and info fetches gave
  tbBatch,     \* the running batch: per token, its fetch, pending or settled
  tbStarts,    \* per token, how many fetches were started for it
  tbPauses,    \* how many pauses between batches have elapsed
  \* ---- PriceService.calculatePortfolioValue
  pvPc,        \* "idle" | "native" | "erc20" | "value" | "done"
  pvRun,       \* 0 before the first call, then the number of the call
  pvTokens,    \* the tokens argument of the first call
  pvEnv,       \* what the price source has, the same for every call
  pvPriceMap,  \* priceMap
  pvLeft,      \* the positions of pvTokens not valued yet in this call
  pvOut,       \* valuation.tokensWithValue, with how each price was found
  pvByChain,   \* valuation.valueByChainUSD
  pvTotal,     \* valuation.totalValueUSD
  pvRequests,  \* the requests this call made to the price source
  pvFirst,     \* what the first call returned
  \* ---- the keys of TokenService's cache
  kcStore,     \* the cache: for each key in it, the call that stored the entry
  kcServed,    \* the calls served from the cache, with the call that had stored
  kcCalls,     \* the number of calls made
  \* ---- token discovery of getTokenBalances
  dsPc,        \* "idle" | "loop" | "done"
  dsHistory,   \* the contractAddress of each record of txResponse.data.result
  dsIdx,       \* the records read
  dsMap,       \* the keys of uniqueTokenMap, in the order of insertion
  dsTokens,    \* discoveredTokens
  \* ---- the upstream calls of one GET /tokens request
  upPc,        \* "idle" | "waiting" | "responded"
  upHung,      \* the upstream calls that never answer
  upBranch,    \* per chain, the calls made and how the current one stands
  \* ---- the price requests by contract address of calculatePortfolioValue
  pbPc,        \* "idle" | "batches" | "done"
  pbTokens,    \* the tokens argument
  pbByChain,   \* erc20TokensByChain: per chain, the addresses to price
  pbChains,    \* the keys of erc20TokensByChain still to go, in their order
  pbI,         \* i of the loop over one chain's addresses
  pbRequests,  \* the token_price requests made, in order
  pbPriceMap   \* the 'chainKey|address' keys of priceMap

mcVars == <<mcPc, mcCalls, mcTransport, mcRaw, mcResults, mcThrew, mcNetCalls>>

tsVars == <<now, cache, gw>>

fwVars == <<fwPc, fwSite, fwI, fwLog, fwWait>>

posVars == <<posProto, posPc, posN, posIdx, posOut, posSupported, posFailed,
            posResults>>

rqVars == <<rqKind, rqPc, rqWallet, rqTargets, rqIdx, rqReport, rqStatus,
           rqBuilt, rqUpstream, rqFault, rqUsage,
                 rqListening, rqArgv>>

tbVars == <<tbPc, tbChain, tbKey, tbDiscovery, tbTokens, tbIdx, tbResult,
           tbExplorer, tbRpc, tbNative, tbAnswers, tbFetched, tbBatch,
           tbStarts, tbPauses>>

tbBatchVars == <<tbBatch, tbStarts, tbPauses>>

pvVars == <<pvPc, pvRun, pvTokens, pvEnv, pvPriceMap, pvLeft, pvOut, pvByChain,
           pvTotal, pvRequests, pvFirst>>

kcVars == <<kcStore, kcServed, kcCalls>>

dsVars == <<dsPc, dsHistory, dsIdx, dsMap, dsTokens>>

upVars == <<upPc, upHung, upBranch>>

pbVars == <<pbPc, pbTokens, pbByChain, pbChains, pbI, pbRequests, pbPriceMap>>

vars == <<mcVars, tsVars, fwVars, posVars, rqVars, tbVars, pvVars, kcVars,
          dsVars, upVars, pbVars>>

\* The variables each component leaves alone.
nonMcVars == <<tsVars, fwVars, posVars, rqVars, tbVars, pvVars,
              kcVars, dsVars, upVars, pbVars>>
nonTsVars == <<mcVars, fwVars, posVars, rqVars, tbVars, pvVars,
              kcVars, dsVars, upVars, pbVars>>
nonFwVars == <<mcVars, tsVars, posVars, rqVars, tbVars, pvVars,
              kcVars, dsVars, upVars, pbVars>>
nonPosVars == <<mcVars, tsVars, fwVars, rqVars, tbVars, pvVars,
              kcVars, dsVars, upVars, pbVars>>
nonRqVars == <<mcVars, tsVars, fwVars, posVars, tbVars, pvVars,
              kcVars, dsVars, upVars, pbVars>>
nonTbVars == <<mcVars, tsVars, fwVars, posVars, rqVars, pvVars,
              kcVars, dsVars, upVars, pbVars>>
nonPvVars == <<mcVars, tsVars, fwVars, posVars, rqVars, tbVars, kcVars,
              dsVars, upVars, pbVars>>
nonKcVars == <<mcVars, tsVars, fwVars, posVars, rqVars, tbVars, pvVars,
              dsVars,
              upVars, pbVars>>
nonDsVars == <<mcVars, tsVars, fwVars, posVars, rqVars, tbVars, pvVars,
              kcVars,
              upVars, pbVars>>
nonUpVars == <<mcVars, tsVars, fwVars, posVars, rqVars, tbVars, pvVars,
              kcVars, dsVars, pbVars>>
nonPbVars == <<mcVars, tsVars, fwVars, posVars, rqVars, tbVars, pvVars,
              kcVars, dsVars, upVars>>

\* Sequences over S of length 0..n.
BoundedSeq(S, n) == UNION {[1..k -> S] : k \in 0..n}

(***************************************************************************)
(* Multicall.batchCall                                                     *)
(***************************************************************************)

\* Longest call list given to batchCall.
MaxBatch == 3

Targets == {"0xA", "0xB"}
\* Functions of the call's ABI; "missing" names a function the ABI lacks, for
\* which Interface.encodeFunctionData throws.
AbiFunctions == {"balanceOf", "decimals"}
FunctionNames == AbiFunctions \cup {"missing"}
\* allowFailure is optional in MulticallCall.
AllowFailureValues == {"undefined", "true", "false"}

MulticallCall == [target : Targets, functionName : FunctionNames,
                  allowFailure : AllowFailureValues]

\* call.allowFailure !== false
AllowFailure(call) == call.allowFailure # "false"

\* A variant of Encodable for which no encoding throws.
Encodable_Always(call) == TRUE

\* iface.encodeFunctionData(call.functionName, ...) succeeds.
Encodable(call) == call.functionName \in AbiFunctions

\* One element of callDatas.
EncodeCall(call) ==
  [target |-> call.target, allowFailure |-> AllowFailure(call),
   callData |-> call.functionName]

\* What executing one call on chain can do: return well-formed data, revert,
\* or return data that does not have the shape of the function's outputs.
Outcomes == {"ok", "revert", "garbage"}

\* Multicall3.aggregate3 reverts as a whole when a call that does not allow
\* failure reverts.
Aggregate3Reverts(callDatas, outcome) ==
  \E i \in 1..Len(callDatas) :
    outcome[i] = "revert" /\ ~callDatas[i].allowFailure

\* The (success, returnData) pairs of aggregate3, one per call, in call order.
Aggregate3Result(callDatas, outcome) ==
  [i \in 1..Len(callDatas) |->
     [success |-> outcome[i] # "revert",
      returnData |-> [target |-> callDatas[i].target,
                      fn |-> callDatas[i].callData,
                      wellFormed |-> outcome[i] = "ok"]]]

\* iface.decodeFunctionResult(call.functionName, returnData) does not throw.
Decodable(call, returnData) ==
  returnData.wellFormed /\ returnData.fn = call.functionName

Failure(msg) == [success |-> FALSE, data |-> <<>>, error |-> msg]

\* A variant of MapResult that trusts the reported success and skips the
\* decode check.
MapResult_TrustSuccess(call, entry) ==
  [success |-> entry.success,
   data |-> <<entry.returnData.target, entry.returnData.fn>>,
   error |-> "none"]

\* The body of results.map at index i (lines 61-77).
MapResult(call, entry) ==
  IF ~entry.success THEN Failure("Call failed")
  ELSE IF Decodable(call, entry.returnData)
       THEN [success |-> TRUE,
             data |-> <<entry.returnData.target, entry.returnData.fn>>,
             error |-> "none"]
       ELSE Failure("decode")

\* A variant of MapResults that leaves the failed entries out.
MapResults_DropFailed(calls, raw) ==
  SelectSeq([i \in 1..Len(raw) |-> MapResult(calls[i], raw[i])],
            LAMBDA r : r.success)

\* results.map(([success, returnData], i) => ...): one result per returned pair,
\* decoded against calls[i].
MapResults(calls, raw) == [i \in 1..Len(raw) |-> MapResult(calls[i], raw[i])]

\* A variant of BatchCallOnError that rethrows instead of answering.
BatchCallOnError_Rethrow(calls, msg) == [threw |-> TRUE, results |-> <<>>]

\* The outer catch (lines 78-85): what batchCall hands its caller when encoding
\* or the aggregate3 call throws.
BatchCallOnError(calls, msg) ==
  [threw |-> FALSE, results |-> [i \in 1..Len(calls) |-> Failure(msg)]]

\* The token service before any call.
TsIdle ==
  /\ now = 0
  /\ cache = [k \in {} |-> 0]
  /\ gw = <<>>

\* The batcher before any call.
McIdle ==
  /\ mcPc = "start"
  /\ mcCalls = <<>>
  /\ mcTransport = "none"
  /\ mcRaw = <<>>
  /\ mcResults = <<>>
  /\ mcThrew = FALSE
  /\ mcNetCalls = 0

\* The price service before any request.
FwIdle ==
  /\ fwPc = "idle"
  /\ fwSite = "none"
  /\ fwI = 0
  /\ fwLog = <<>>
  /\ fwWait = 0

\* The resolvers before any request.
PosIdle ==
  /\ posProto = "none"
  /\ posPc = "idle"
  /\ posN = 0
  /\ posIdx = 0
  /\ posOut = <<>>
  /\ posSupported = TRUE
  /\ posFailed = {}
  /\ posResults = <<>>

\* The names a branch of a request can have: the protocols and the chains.
BranchNames == {"aave", "lido", "yearn", "compound",
                "ethereum", "base", "bittensor", "monad"}

\* The request handlers before any request.
RqIdle ==
  /\ rqKind = "none"
  /\ rqPc = "idle"
  /\ rqWallet = "none"
  /\ rqTargets = <<>>
  /\ rqIdx = 0
  /\ rqReport = [b \in BranchNames |-> "none"]
  /\ rqStatus = "none"
  /\ rqBuilt = {}
  /\ rqUpstream = {}
  /\ rqFault = [b \in BranchNames |-> "none"]
  /\ rqUsage = "none"
  /\ rqListening = FALSE
  /\ rqArgv = [envOk |-> FALSE, argv |-> "none"]

\* Most tokens the discovery can find.
MaxTokens == 3

\* An entry result does not have.
NoData == [balance |-> -1, info |-> "absent"]

\* getTokenBalances before any call.
TbIdle ==
  /\ tbPc = "idle"
  /\ tbChain = "none"
  /\ tbKey = FALSE
  /\ tbDiscovery = "none"
  /\ tbTokens = 0
  /\ tbIdx = 0
  /\ tbResult = [k \in 0..MaxTokens |-> NoData]
  /\ tbExplorer = {}
  /\ tbRpc = {}
  /\ tbNative = "none"
  /\ tbAnswers = [cached |-> FALSE, explorer |-> "none", rpc |-> "none"]
  /\ tbFetched = <<>>
  /\ tbBatch = <<>>
  /\ tbStarts = [t \in 1..MaxTokens |-> 0]
  /\ tbPauses = 0

\* The chains a priced token can be on.
PricedChains == {"ethereum", "base"}

\* priceMap before any price is fetched: no native price, no price by
\* address, no price by fallback id.
EmptyPriceMap == [native |-> 0, address |-> {}, fallback |-> 0]

\* calculatePortfolioValue before any call.
PvIdle ==
  /\ pvPc = "idle"
  /\ pvRun = 0
  /\ pvTokens = <<>>
  /\ pvEnv = [down |-> FALSE, found |-> {}, symbolOk |-> FALSE,
              nativeOk |-> FALSE]
  /\ pvPriceMap = EmptyPriceMap
  /\ pvLeft = {}
  /\ pvOut = <<>>
  /\ pvByChain = [c \in PricedChains |-> 0]
  /\ pvTotal = 0
  /\ pvRequests = {}
  /\ pvFirst = [byChain |-> [c \in PricedChains |-> 0], total |-> 0]

\* The cache before any call.
KcIdle ==
  /\ kcStore = <<>>
  /\ kcServed = {}
  /\ kcCalls = 0

\* Token discovery before any call.
DsIdle ==
  /\ dsPc = "idle"
  /\ dsHistory = <<>>
  /\ dsIdx = 0
  /\ dsMap = <<>>
  /\ dsTokens = <<>>

\* The chains of the request whose upstream calls are followed.
UpChains == {"ethereum", "base"}

\* No request yet.
UpIdle ==
  /\ upPc = "idle"
  /\ upHung = {}
  /\ upBranch = [c \in UpChains |-> [made |-> 0, state |-> "idle"]]

\* The chains a token to price can be on.
PbChainKeys == {"ethereum", "base", "monad"}

\* No call yet.
PbIdle ==
  /\ pbPc = "idle"
  /\ pbTokens = <<>>
  /\ pbByChain = [c \in PbChainKeys |-> <<>>]
  /\ pbChains = <<>>
  /\ pbI = 0
  /\ pbRequests = <<>>
  /\ pbPriceMap = {}

InitBatch ==
  /\ TsIdle
  /\ FwIdle
  /\ PosIdle
  /\ RqIdle
  /\ TbIdle
  /\ PvIdle
  /\ KcIdle
  /\ DsIdle
  /\ UpIdle
  /\ PbIdle
  /\ mcPc = "start"
  /\ mcCalls \in BoundedSeq(MulticallCall, MaxBatch)
  /\ mcTransport = "none"
  /\ mcRaw = <<>>
  /\ mcResults = <<>>
  /\ mcThrew = FALSE
  /\ mcNetCalls = 0

\* Lines 48-59: encode every call, then send aggregate3.staticCall; an encoding
\* error goes to the outer catch before anything is sent.
BatchCallStart ==
  /\ mcPc = "start"
  /\ IF \A i \in 1..Len(mcCalls) : Encodable(mcCalls[i])
     THEN /\ mcPc' = "awaiting"
          /\ mcNetCalls' = mcNetCalls + 1
          /\ UNCHANGED <<mcResults, mcThrew>>
     ELSE LET r == BatchCallOnError(mcCalls, "encode")
          IN /\ mcPc' = "done"
             /\ mcResults' = r.results
             /\ mcThrew' = r.threw
             /\ UNCHANGED mcNetCalls
  /\ UNCHANGED <<mcCalls, mcTransport, mcRaw>>
  /\ UNCHANGED nonMcVars

\* Lines 59-77: aggregate3 returns its pairs and batchCall maps them.
Aggregate3Returns ==
  /\ mcPc = "awaiting"
  /\ \E outcome \in [1..Len(mcCalls) -> Outcomes] :
       LET callDatas == [i \in 1..Len(mcCalls) |-> EncodeCall(mcCalls[i])]
       IN /\ ~Aggregate3Reverts(callDatas, outcome)
          /\ mcRaw' = Aggregate3Result(callDatas, outcome)
          /\ mcResults' = MapResults(mcCalls, mcRaw')
  /\ mcTransport' = "returned"
  /\ mcPc' = "done"
  /\ UNCHANGED <<mcCalls, mcThrew, mcNetCalls>>
  /\ UNCHANGED nonMcVars

\* Lines 59, 78-85: the aggregate3 call throws (the RPC transport fails, or the
\* batching contract reverts) and the outer catch answers.
Aggregate3Throws ==
  /\ mcPc = "awaiting"
  /\ LET r == BatchCallOnError(mcCalls, "transport")
     IN /\ mcResults' = r.results
        /\ mcThrew' = r.threw
  /\ mcTransport' = "failed"
  /\ mcPc' = "done"
  /\ UNCHANGED <<mcCalls, mcRaw, mcNetCalls>>
  /\ UNCHANGED nonMcVars

NextBatch ==
  \/ BatchCallStart
  \/ Aggregate3Returns
  \/ Aggregate3Throws

SpecBatch == InitBatch /\ [][NextBatch]_vars

----------------------------------------------------------------------------
\* C1: batchCall on n calls returns exactly n results, and result i is the
\* result of call i (a successful result carries the data read from call i's
\* target by call i's function), whether the aggregate3 call returned or failed.
C1_SameLengthSameOrder ==
  mcPc = "done" =>
    /\ Len(mcResults) = Len(mcCalls)
    /\ \A i \in 1..Len(mcResults) :
         mcResults[i].success =>
           mcResults[i].data = <<mcCalls[i].target, mcCalls[i].functionName>>

\* A batch of three calls to different targets answered with a success and a
\* failure.
C1_Witness ==
  /\ mcPc = "done"
  /\ mcTransport = "returned"
  /\ Len(mcCalls) = 3
  /\ mcCalls[1].target # mcCalls[3].target
  /\ mcResults[1].success /\ ~mcResults[2].success /\ mcResults[3].success

\* C2: when the aggregate3 call returns, batchCall does not throw and result i
\* succeeds exactly when aggregate3 reported success for call i and the return
\* data decodes against call i; result i depends on call i's own pair only, so
\* a reverting or undecodable call fails alone.
C2_FailureIsPerCall ==
  (mcPc = "done" /\ mcTransport = "returned") =>
    /\ ~mcThrew
    /\ Len(mcResults) = Len(mcRaw)
    /\ \A i \in 1..Len(mcResults) :
         /\ mcResults[i].success <=>
              (mcRaw[i].success /\ Decodable(mcCalls[i], mcRaw[i].returnData))
         /\ ~mcRaw[i].success => mcResults[i] = Failure("Call failed")

\* Three calls: one target reverted, one returned undecodable data, one
\* succeeded.
C2_Witness ==
  /\ mcPc = "done"
  /\ mcTransport = "returned"
  /\ Len(mcCalls) = 3
  /\ \E i, j, k \in 1..3 :
       /\ ~mcRaw[i].success
       /\ mcRaw[j].success /\ ~mcResults[j].success
       /\ mcResults[k].success

\* C3 as stated: when the aggregate3 call fails, batchCall raises to its caller.
C3_RaisesOnTransportFailure ==
  (mcPc = "done" /\ mcTransport = "failed") => mcThrew

\* C3 amended: when the aggregate3 call fails, batchCall does not raise; it
\* returns one failure result per call, each carrying the error.
C3_ReturnsFailuresOnTransportFailure ==
  (mcPc = "done" /\ mcTransport = "failed") =>
    /\ ~mcThrew
    /\ Len(mcResults) = Len(mcCalls)
    /\ \A i \in 1..Len(mcResults) : mcResults[i] = Failure("transport")

\* A batch of two calls whose aggregate3 call failed.
C3_Witness ==
  /\ mcPc = "done"
  /\ mcTransport = "failed"
  /\ Len(mcCalls) = 2
  /\ mcNetCalls = 1

----------------------------------------------------------------------------
\* C34 as stated: batchCall on an empty call list sends no aggregate3 call.
C34_EmptyBatchMakesNoCall == Len(mcCalls) = 0 => mcNetCalls = 0

----------------------------------------------------------------------------
\* C39: when the calldata of some call of the batch cannot be encoded,
\* batchCall sends no aggregate3 call, does not raise, and returns one
\* failure per call of the batch, for the calls that encode as well.
C39_EncodingFailureFailsTheBatch ==
  (\E i \in 1..Len(mcCalls) : mcCalls[i].functionName = "missing") =>
    /\ mcNetCalls = 0
    /\ mcTransport = "none"
    /\ mcRaw = <<>>
    /\ ~mcThrew
    /\ mcPc \in {"start", "done"}
    /\ mcPc = "done" =>
         /\ Len(mcResults) = Len(mcCalls)
         /\ \A i \in 1..Len(mcResults) : ~mcResults[i].success

\* A batch of three calls whose second alone does not encode was answered
\* with three failures.
C39_Witness ==
  /\ mcPc = "done"
  /\ Len(mcCalls) = 3
  /\ mcCalls[1].functionName = "balanceOf"
  /\ mcCalls[2].functionName = "missing"
  /\ mcCalls[3].functionName = "decimals"
  /\ Len(mcResults) = 3
  /\ mcNetCalls = 0

(***************************************************************************)
(* TokenService.getWithCache and withRetry                                 *)
(***************************************************************************)

\* Number of getWithCache calls made.
MaxCalls == 2
\* Last instant of the clock.
MaxTime == 3

\* CACHE_TTL = 5 * 60 * 1000 ms; the clock counts in units of half a TTL.
CACHE_TTL == 2
\* withRetry's default maxRetries and baseDelay (ms).
MaxRetries == 3
BaseDelay == 1000

\* Cache keys: one as getNativeBalance builds them
\* (`native_${chainKey}_${wallet}`), one as getTokenInfo does
\* (`tokenInfo_${chain}_${tokenAddress}`).
Keys == {"native_ethereum_0xW1", "tokenInfo_ethereum_0xT1"}
\* Balances the upstream can report.
Values == {"100", "250"}
\* What getTokenInfo's producer returns (lines 161-166): the explorer's
\* record, or null when the explorer has none.
TokenInfos == {"info", "null"}
\* What the producer of a key can resolve with.
Produces(k) == IF k = "tokenInfo_ethereum_0xT1" THEN TokenInfos ELSE Values
\* 0.5 + Math.random() * 0.5, in thousandths: from 0.5 to just under 1.
JitterPerMille == {500, 999}

NoEntry == [present |-> FALSE, data |-> "none", expiry |-> 0]

IdleCall ==
  [pc |-> "idle", key |-> "none", startNow |-> 0, attempt |-> 0, delay |-> 0,
   lastError |-> 0, raised |-> 0, source |-> "none", result |-> "none",
   produced |-> "none", sawLive |-> FALSE, sawData |-> "none"]

RECURSIVE Pow2(_)
\* Math.pow(2, n).
Pow2(n) == IF n <= 0 THEN 1 ELSE 2 * Pow2(n - 1)

\* A variant of IsLive with the comparison turned around.
IsLive_Inverted(entry, t) == entry.present /\ entry.expiry < t

\* A variant of IsLive that takes an entry holding null for no entry.
IsLive_NullIsAbsent(entry, t) ==
  entry.present /\ entry.data # "null" /\ entry.expiry > t

\* A variant of IsLive that never looks at the expiry.
IsLive_IgnoresExpiry(entry, t) == entry.present

\* Line 95: cached && cached.expiry > now.
IsLive(entry, t) == entry.present /\ entry.expiry > t

\* Line 100: { data, expiry: now + this.CACHE_TTL }, now being the instant
\* the call read at its start.
NewEntry(data, t) == [present |-> TRUE, data |-> data, expiry |-> t + CACHE_TTL]

\* Lines 99-101: the value withRetry returned is the value getWithCache returns.
Returned(data, old) == data

\* A variant of LastAttempt that stops one attempt late.
LastAttempt_OneMore(attempt) == attempt = MaxRetries + 1

\* Line 113: if (attempt === maxRetries) break.
LastAttempt(attempt) == attempt = MaxRetries

\* A variant of ThrownError that raises the generic error.
ThrownError_Unknown(lastError) == 0

\* Line 121: throw lastError || new Error('Unknown error in withRetry').
\* An error is named by the attempt that raised it; 0 is the generic error.
ThrownError(lastError) == IF lastError # 0 THEN lastError ELSE 0

\* A variant of BackoffDelay that doubles once more.
BackoffDelay_TwiceAsLong(attempt, jitter) ==
  (BaseDelay * Pow2(attempt) * jitter) \div 1000

\* Line 116: baseDelay * 2^(attempt - 1) * (0.5 + Math.random() * 0.5).
BackoffDelay(attempt, jitter) == (BaseDelay * Pow2(attempt - 1) * jitter) \div 1000

InitCache ==
  /\ McIdle
  /\ FwIdle
  /\ PosIdle
  /\ RqIdle
  /\ TbIdle
  /\ PvIdle
  /\ KcIdle
  /\ DsIdle
  /\ UpIdle
  /\ PbIdle
  /\ now = 0
  /\ cache = [k \in Keys |-> NoEntry]
  /\ gw = [c \in 1..MaxCalls |-> IdleCall]

\* Lines 91-99: a call reads the clock and the cache; a live entry is returned
\* at once, otherwise withRetry starts and invokes fetchFn (attempt 1).
GetWithCache(c, k) ==
  /\ gw[c].pc = "idle"
  /\ \A d \in 1..(c - 1) : gw[d].pc # "idle"
  /\ LET seen == [sawLive |-> cache[k].present /\ cache[k].expiry > now,
                  sawData |-> cache[k].data]
     IN IF IsLive(cache[k], now)
        THEN gw' = [gw EXCEPT ![c] =
                      [IdleCall EXCEPT !.pc = "done", !.key = k,
                                       !.source = "cache",
                                       !.result = cache[k].data,
                                       !.sawLive = seen.sawLive,
                                       !.sawData = seen.sawData]]
        ELSE gw' = [gw EXCEPT ![c] =
                      [IdleCall EXCEPT !.pc = "inflight", !.key = k,
                                       !.startNow = now, !.attempt = 1,
                                       !.sawLive = seen.sawLive,
                                       !.sawData = seen.sawData]]
  /\ UNCHANGED <<now, cache>>
  /\ UNCHANGED nonTsVars

\* Lines 109, 99-101: fetchFn resolves with the balance the upstream reports
\* at that moment; withRetry returns it, the entry is stored and the value
\* returned.
ProducerResolves(c, data) ==
  /\ gw[c].pc = "inflight"
  /\ data \in Produces(gw[c].key)
  /\ cache' = [cache EXCEPT ![gw[c].key] = NewEntry(data, gw[c].startNow)]
  /\ gw' = [gw EXCEPT ![c].pc = "done", ![c].source = "producer",
                      ![c].produced = data,
                      ![c].result = Returned(data, cache[gw[c].key]),
                      ![c].startNow = 0]
  /\ UNCHANGED now
  /\ UNCHANGED nonTsVars

\* Lines 110-121: fetchFn rejects; after the last attempt the error is thrown
\* through getWithCache, otherwise the backoff timer is set.
ProducerRejects(c) ==
  /\ gw[c].pc = "inflight"
  /\ IF LastAttempt(gw[c].attempt)
     THEN gw' = [gw EXCEPT ![c].pc = "failed",
                           ![c].lastError = gw[c].attempt,
                           ![c].raised = ThrownError(gw[c].attempt),
                           ![c].startNow = 0]
     ELSE \E j \in JitterPerMille :
            gw' = [gw EXCEPT ![c].pc = "backoff",
                             ![c].lastError = gw[c].attempt,
                             ![c].delay = BackoffDelay(gw[c].attempt, j)]
  /\ UNCHANGED <<now, cache>>
  /\ UNCHANGED nonTsVars

\* Lines 117, 107-109: the timer fires and the next attempt invokes fetchFn.
BackoffElapses(c) ==
  /\ gw[c].pc = "backoff"
  /\ gw' = [gw EXCEPT ![c].pc = "inflight", ![c].attempt = gw[c].attempt + 1,
                      ![c].delay = 0]
  /\ UNCHANGED <<now, cache>>
  /\ UNCHANGED nonTsVars

\* Time passes.
Tick ==
  /\ now < MaxTime
  /\ now' = now + 1
  /\ UNCHANGED <<cache, gw>>
  /\ UNCHANGED nonTsVars

NextCache ==
  \/ \E c \in 1..MaxCalls, k \in Keys : GetWithCache(c, k)
  \/ \E c \in 1..MaxCalls, v \in Values \cup TokenInfos : ProducerResolves(c, v)
  \/ \E c \in 1..MaxCalls : ProducerRejects(c)
  \/ \E c \in 1..MaxCalls : BackoffElapses(c)
  \/ Tick

SpecCache == InitCache /\ [][NextCache]_vars

----------------------------------------------------------------------------
\* C4: a call that starts while the key's entry is stored and not yet expired
\* returns the stored value at once: it never waits on the producer, makes no
\* attempt, and so adds no producer success to the one that stored the entry.
C4_LiveEntryIsReturned ==
  \A c \in 1..MaxCalls :
    (gw[c].pc # "idle" /\ gw[c].sawLive) =>
      /\ gw[c].pc = "done"
      /\ gw[c].source = "cache"
      /\ gw[c].attempt = 0
      /\ gw[c].result = gw[c].sawData

\* The first call stored its value on its second attempt; the second call, for
\* the same key and within the time to live, was served from the cache.
C4_Witness ==
  /\ gw[1].pc = "done" /\ gw[1].source = "producer" /\ gw[1].attempt = 2
  /\ gw[2].pc = "done" /\ gw[2].source = "cache"
  /\ gw[2].key = gw[1].key
  /\ gw[2].result = gw[1].result
  /\ now = 1

\* C5 as stated: overlapping requests for one key with no live entry issue one
\* upstream fetch between them, so no two producer invocations for one key are
\* ever in flight together.
C5_OneFetchPerKey ==
  \A k \in Keys :
    Cardinality({c \in 1..MaxCalls : gw[c].key = k /\ gw[c].pc = "inflight"}) <= 1

\* C6: an entry is never served at or after its expiry; a call that found the
\* key's entry expired or absent goes through withRetry, invokes the producer,
\* and returns what the producer produced for it.
C6_ExpiredEntryIsRefetched ==
  \A c \in 1..MaxCalls :
    /\ gw[c].source = "cache" => gw[c].sawLive
    /\ (gw[c].pc # "idle" /\ ~gw[c].sawLive) =>
         /\ gw[c].attempt >= 1
         /\ gw[c].pc = "done" =>
              (gw[c].source = "producer" /\ gw[c].result = gw[c].produced)

\* A call found an expired entry holding another value and returned the value
\* it fetched.
C6_Witness ==
  \E c \in 1..MaxCalls :
    /\ gw[c].pc = "done"
    /\ ~gw[c].sawLive
    /\ gw[c].sawData # "none"
    /\ gw[c].result # gw[c].sawData
    /\ cache[gw[c].key].data = gw[c].result

\* What is left of a call: it shrinks with every step the call takes.
C7_Measure(r) ==
  CASE r.pc = "idle" -> 2 * MaxRetries + 1
    [] r.pc = "inflight" -> 2 * (MaxRetries - r.attempt) + 2
    [] r.pc = "backoff" -> 2 * (MaxRetries - r.attempt) + 1
    [] OTHER -> 0

C7_AttemptsBounded ==
  \A c \in 1..MaxCalls :
    /\ gw[c].attempt <= MaxRetries
    /\ gw[c].pc = "failed" =>
         (gw[c].attempt = MaxRetries /\ gw[c].lastError = MaxRetries)
    /\ (gw[c].pc = "done" /\ gw[c].source = "producer") =>
         (gw[c].attempt >= 1 /\ gw[c].lastError = gw[c].attempt - 1)

C7_StepShrinksMeasure ==
  \A c \in 1..MaxCalls :
    gw'[c] # gw[c] =>
      (C7_Measure(gw'[c]) < C7_Measure(gw[c]) /\ C7_Measure(gw'[c]) >= 0)

\* C7: on a miss the producer is invoked at most 3 times; a success ends the
\* call at that attempt (every earlier attempt failed), the call fails only
\* when attempt 3 failed, and every step of a call shrinks a bounded measure,
\* so the wrapper terminates when its producer invocations do.
C7_AtMostThreeAttempts == []C7_AttemptsBounded /\ [][C7_StepShrinksMeasure]_vars

\* One call failed after three attempts, another succeeded on its third.
C7_Witness ==
  /\ gw[1].pc = "failed" /\ gw[1].attempt = 3
  /\ gw[2].pc = "done" /\ gw[2].attempt = 3 /\ gw[2].lastError = 2

\* C8: when the last attempt fails, the error raised is that attempt's error,
\* and no step of a failing attempt (the rejection, the backoff, the final
\* throw) creates or changes a cache entry.
C8_FailureLeavesCacheAlone ==
  [][\A c \in 1..MaxCalls :
       /\ (gw[c].pc = "inflight" /\ gw'[c].pc = "failed") =>
            (gw'[c].raised = MaxRetries /\ cache' = cache)
       /\ (gw'[c] # gw[c] /\ gw'[c].pc \in {"backoff", "inflight", "failed"}) =>
            cache' = cache]_vars

\* The first call failed and left no entry; the next call for the key is
\* fetching again.
C8_Witness ==
  /\ gw[1].pc = "failed" /\ gw[1].raised = 3
  /\ ~cache[gw[1].key].present
  /\ gw[2].key = gw[1].key
  /\ gw[2].pc = "inflight" /\ gw[2].attempt = 1

----------------------------------------------------------------------------
\* C35: withRetry waits only between attempts.  A call waits only after its
\* attempt 1 or 2 has failed, and the delay before attempt i (2 or 3) is
\* between 500 * 2^(i-2) and 1000 * 2^(i-2) ms; a call that is making an
\* attempt, was served, or has failed for good after attempt 3 has no delay
\* set.
C35_DelayOnlyBetweenAttempts ==
  \A c \in 1..MaxCalls :
    IF gw[c].pc = "backoff"
    THEN LET i == gw[c].attempt + 1
         IN /\ i \in {2, 3}
            /\ 500 * Pow2(i - 2) <= gw[c].delay
            /\ gw[c].delay <= 1000 * Pow2(i - 2)
    ELSE /\ gw[c].delay = 0
         /\ gw[c].pc = "failed" => gw[c].attempt = 3

\* A call waits just under 2000 ms before its third attempt.
C35_Witness ==
  /\ gw[1].pc = "backoff"
  /\ gw[1].attempt = 2
  /\ gw[1].delay = 1998

----------------------------------------------------------------------------
\* C36 as stated: whatever the interleaving of the calls on a key, a write
\* never replaces the key's entry by one that expires earlier.
C36_ExpiryNeverDecreases ==
  [][\A k \in Keys :
       (cache[k].present /\ cache'[k].present) =>
         cache'[k].expiry >= cache[k].expiry]_vars

----------------------------------------------------------------------------
\* C40: a getTokenInfo lookup that found no token stores null like any
\* result.  A later lookup of the key that starts before the entry expires
\* returns null at once, without an attempt; a lookup that has only failed
\* attempts behind it has stored nothing.
C40_NullIsCached ==
  /\ \A c \in 1..MaxCalls :
       (gw[c].pc # "idle" /\ gw[c].sawLive /\ gw[c].sawData = "null") =>
         /\ gw[c].pc = "done"
         /\ gw[c].source = "cache"
         /\ gw[c].result = "null"
         /\ gw[c].attempt = 0
  /\ \A c \in 1..MaxCalls :
       (gw[c].pc = "done" /\ gw[c].source = "producer") =>
         cache[gw[c].key].present
  /\ \A k \in Keys :
       (\A c \in 1..MaxCalls : gw[c].key = k => gw[c].source # "producer") =>
         ~cache[k].present

\* A lookup that found no token, then a lookup of the same token served null
\* from the cache one clock unit later.
C40_Witness ==
  /\ gw[1].key = "tokenInfo_ethereum_0xT1"
  /\ gw[1].source = "producer" /\ gw[1].result = "null"
  /\ gw[2].key = gw[1].key
  /\ gw[2].pc = "done" /\ gw[2].source = "cache" /\ gw[2].result = "null"
  /\ now = 1

----------------------------------------------------------------------------
\* C26 as stated: a native or ERC20 balance is stored with a time to live of
\* 30 seconds.  The clock counts in units of 150 seconds, so the entry of a
\* balance key never has more than one unit left to live.
C26_BalanceTtlIsThirtySeconds ==
  \A k \in {"native_ethereum_0xW1"} :
    cache[k].present => cache[k].expiry - now <= 1

(***************************************************************************)
(* priceService: fetchWithRetry                                            *)
(***************************************************************************)

\* fetchWithRetry's default retries and backoff (ms).
FwRetries == 3
FwBackoff == 1000

\* The three requests calculatePortfolioValue makes through fetchWithRetry:
\* native prices, token prices by contract address, the symbol fallback.
FwSites == {"simple/price", "simple/token_price", "simple/price fallback"}

\* What axios.get can do: answer, or reject with an error that carries the
\* response's status, or with one that carries no response (a transport error).
FwOk == [ok |-> TRUE, hasResponse |-> TRUE, status |-> 200]
FwErrors ==
  {[ok |-> FALSE, hasResponse |-> FALSE, status |-> 0]} \cup
  {[ok |-> FALSE, hasResponse |-> TRUE, status |-> st] : st \in {400, 404, 429, 500, 503}}

\* Line 122: i === retries - 1 || (status !== 429 && (status === null || status < 500)),
\* status being null when the error has no response.
FwGivesUp(i, e) ==
  \/ i = FwRetries - 1
  \/ /\ ~(e.hasResponse /\ e.status = 429)
     /\ (~e.hasResponse \/ e.status < 500)

InitPrice ==
  /\ McIdle
  /\ TsIdle
  /\ PosIdle
  /\ RqIdle
  /\ TbIdle
  /\ PvIdle
  /\ KcIdle
  /\ DsIdle
  /\ UpIdle
  /\ PbIdle
  /\ FwIdle

\* Lines 116-118: the loop starts and the first axios.get is sent.
FetchWithRetry(site) ==
  /\ fwPc = "idle"
  /\ fwPc' = "inflight"
  /\ fwSite' = site
  /\ UNCHANGED <<fwI, fwLog, fwWait>>
  /\ UNCHANGED nonFwVars

\* Line 118: axios.get answers and its response is returned.
AxiosResolves ==
  /\ fwPc = "inflight"
  /\ fwLog' = Append(fwLog, FwOk)
  /\ fwPc' = "returned"
  /\ UNCHANGED <<fwSite, fwI, fwWait>>
  /\ UNCHANGED nonFwVars

\* Lines 119-126: axios.get rejects; the error is rethrown, or the backoff
\* timer is set.
AxiosRejects(e) ==
  /\ fwPc = "inflight"
  /\ fwLog' = Append(fwLog, e)
  /\ IF FwGivesUp(fwI, e)
     THEN fwPc' = "threw" /\ fwWait' = 0
     ELSE fwPc' = "backoff" /\ fwWait' = FwBackoff * Pow2(fwI)
  /\ UNCHANGED <<fwSite, fwI>>
  /\ UNCHANGED nonFwVars

\* Lines 126, 116-118: the timer fires, i++, and the next axios.get is sent.
FwBackoffElapses ==
  /\ fwPc = "backoff"
  /\ fwI' = fwI + 1
  /\ fwWait' = 0
  /\ fwPc' = "inflight"
  /\ UNCHANGED <<fwSite, fwLog>>
  /\ UNCHANGED nonFwVars

NextPrice ==
  \/ \E site \in FwSites : FetchWithRetry(site)
  \/ AxiosResolves
  \/ \E e \in FwErrors : AxiosRejects(e)
  \/ FwBackoffElapses

SpecPrice == InitPrice /\ [][NextPrice]_vars

----------------------------------------------------------------------------
\* C9 as stated, for the two failures it names: a price-source call whose
\* failure is a transport error with no HTTP response, or an HTTP 429, is
\* reported only after the maximum number of attempts, as in withRetry.
C9_EveryFailureIsRetried ==
  (/\ fwPc = "threw"
   /\ LET e == fwLog[Len(fwLog)] IN ~e.hasResponse \/ e.status = 429)
    => Len(fwLog) = FwRetries

(***************************************************************************)
(* The protocol resolvers: AaveService, CompoundService, YearnService and  *)
(* LidoService getPositions                                                *)
(***************************************************************************)

\* Most reserves, markets or vaults one resolver is given.
MaxObjects == 2

\* What a balance read can give: a raw on-chain amount, or -1 when the read
\* throws.
RawAmounts == {0, 1, 5000000}
RawReads == RawAmounts \cup {-1}
\* decimals() of a reserve's token, or -1 when the read throws.
DecimalsReads == {-1, 6, 8}
\* Line 131: let decimals = 18.
AaveDefaultDecimals == 18

RECURSIVE Pow10(_)
Pow10(n) == IF n <= 0 THEN 1 ELSE 10 * Pow10(n - 1)

\* .catch(() => ethers.BigNumber.from(0)) on a balance read (lines 162-172).
BalanceOrZero(read) == IF read < 0 THEN 0 ELSE read

\* parseFloat(formatUnits(raw, decimals)).toFixed(6), as a count of millionths:
\* raw / 10^decimals rounded to six places. The raw amounts of the model are
\* below 2^31, so with 16 decimals or more the result is 0.
ToFixed6(raw, decimals) ==
  IF decimals <= 6 THEN raw * Pow10(6 - decimals)
  ELSE IF decimals >= 16 THEN 0
  ELSE (raw + 5 * Pow10(decimals - 7)) \div Pow10(decimals - 6)

\* Line 191: aTokenBalance.gt(0) || stableDebt.gt(0) || variableDebt.gt(0).
AaveEmits(a, sd, vd) == a > 0 \/ sd > 0 \/ vd > 0

\* reserveData[2] (currentLiquidityRate) and reserveData[4]
\* (currentVariableBorrowRate), ray-scaled on chain, here in units of 1e21: a
\* ray (1e27) is 1000000 units and 2.5e25 is 25000 units.
LiquidityRates == {0, 25000, 1000000}
VariableBorrowRates == {0, 314000}

\* The reserves the registry can list: what decimals() of the reserve's token
\* gives, and the reserve's two rates.
AaveReserves ==
  {r \in [decimals : DecimalsReads, liquidityRate : LiquidityRates,
          variableBorrowRate : VariableBorrowRates] :
     \/ r.decimals = -1 /\ r.liquidityRate = 0 /\ r.variableBorrowRate = 0
     \/ r.decimals = 6 /\ r.liquidityRate = 25000 /\ r.variableBorrowRate = 314000
     \/ r.decimals = 8 /\ r.liquidityRate = 1000000 /\ r.variableBorrowRate = 0}

\* Lines 187-188: (parseFloat(formatUnits(rate, 25)) / 100).toFixed(2), as a
\* count of hundredths. formatUnits(rate, 25) is rate / 1e25, the division by
\* 100 makes it rate / 1e27, and toFixed(2) rounds that to two places: in the
\* units of the model, rate / 10000 rounded (0.025 is printed "0.03").
AaveApy(rate) == (rate + 5000) \div 10000

\* Lines 180-199: supplied and borrowed, as the numbers their strings denote
\* (in millionths), beside the raw balances they come from; supplyAPY and
\* borrowAPY (in hundredths) beside the rates they come from.
AavePosition(i, decimals, a, sd, vd, lRate, bRate) ==
  [protocol |-> "aave", object |-> i,
   amounts |-> <<ToFixed6(a, decimals), ToFixed6(sd + vd, decimals)>>,
   raw |-> <<a, sd, vd>>,
   apy |-> <<AaveApy(lRate), AaveApy(bRate)>>,
   rates |-> <<lRate, bRate>>]

\* exchangeRateStored, written num / den for the mantissa num * 1e18 / den.
ExchangeRates == {[num |-> 0, den |-> 1], [num |-> 2, den |-> 10000],
                  [num |-> 200, den |-> 1]}

\* Lines 156-158: hasSupply && exchangeRate
\*   ? suppliedCToken * exchangeRate / 10^18 : 0n, in integer arithmetic.
CompoundUnderlying(cBal, rate) ==
  IF cBal > 0 /\ rate.num # 0 THEN (cBal * rate.num) \div rate.den ELSE 0

\* Lines 138-143: hasSupply || hasBorrow.
CompoundEmits(cBal, borrow) == cBal > 0 \/ borrow > 0

\* Lines 160-169: supplied and borrowed are formatUnits of integers, so each
\* denotes a positive number exactly when its integer is positive.
CompoundPosition(i, cBal, borrow, rate) ==
  [protocol |-> "compound", object |-> i,
   amounts |-> <<CompoundUnderlying(cBal, rate), IF borrow > 0 THEN borrow ELSE 0>>,
   raw |-> <<cBal, borrow>>]

\* The decimals, prices per share and balances a vault can report.
VaultDecimals == {2, 3}
PricesPerShare == {0, 100, 1050}
VaultBalances == {0, 1, 250}

\* A variant of YearnUnderlying that rounds to the nearest unit, as a
\* floating-point computation followed by rounding would.
YearnUnderlying_Rounded(balance, pps, decimals) ==
  (2 * balance * pps + Pow10(decimals)) \div (2 * Pow10(decimals))

\* yearnService.ts line 69: balance * pricePerShare / 10^decimals.
YearnUnderlying(balance, pps, decimals) == (balance * pps) \div Pow10(decimals)

\* yearnService.ts lines 86-94: balance and underlyingBalance are formatUnits
\* of integers.
YearnPosition(i, balance, pps, decimals) ==
  [protocol |-> "yearn", object |-> i,
   amounts |-> <<balance, YearnUnderlying(balance, pps, decimals)>>,
   raw |-> <<balance>>,
   pricePerShare |-> pps, decimals |-> decimals]

\* stETH's getPooledEthByShares: shares * totalPooledEther / totalShares, the
\* pool holding at least one wei per share.
PoolRates == {[num |-> 1, den |-> 1], [num |-> 11, den |-> 10]}
GetPooledEthByShares(shares, rate) == (shares * rate.num) \div rate.den
StakedAmounts == {0, 1, 1000}

\* Lido lines 50-58 (stETH: staked and stakedInEth are the pooled ether) and
\* 71-81 (wstETH: staked is the balance, stakedInEth is '0').
LidoPosition(i, held, pooled) ==
  [protocol |-> "lido", object |-> i,
   amounts |-> IF i = 1 THEN <<pooled, pooled>> ELSE <<held, 0>>,
   raw |-> <<held>>]

InitPositions ==
  /\ McIdle
  /\ TsIdle
  /\ FwIdle
  /\ PosIdle
  /\ RqIdle
  /\ TbIdle
  /\ PvIdle
  /\ KcIdle
  /\ DsIdle
  /\ UpIdle
  /\ PbIdle

\* A variant of UnsupportedOutcome in which every resolver returns [].
UnsupportedOutcome_AlwaysEmpty(proto) == "done"

\* How getPositions ends on a chain without configuration for the protocol:
\* Aave (lines 55-58) and Compound (lines 34-37) log and return [], Yearn
\* (lines 37-39) and Lido (lines 30-32) throw 'not supported on chain'.
UnsupportedOutcome(proto) ==
  IF proto \in {"aave", "compound"} THEN "done" ELSE "threw"

\* What getPositions does before it resolves any object. Aave (lines 48-109)
\* and Compound (lines 27-52) return [] on a chain without configuration and
\* when the registry read (getPool, getAllReservesTokens, getAllMarkets)
\* throws; Yearn (lines 30-39) and Lido (lines 23-32) throw on a chain without
\* configuration and read no registry.
GetPositions(proto, supported, registryOk, n) ==
  /\ posPc = "idle"
  /\ posProto' = proto
  /\ posSupported' = supported
  /\ IF ~supported
     THEN /\ posPc' = UnsupportedOutcome(proto)
          /\ posN' = 0
     ELSE IF proto \in {"aave", "compound"} /\ ~registryOk
     THEN posPc' = "done" /\ posN' = 0
     ELSE /\ posPc' = IF proto = "compound" THEN "batch" ELSE "running"
          /\ posN' = IF proto = "lido" THEN 2 ELSE n
  /\ UNCHANGED <<posIdx, posOut, posFailed, posResults>>
  /\ UNCHANGED nonPosVars

\* aaveService.ts lines 101-212: one reserve. A zero-address reserve is
\* filtered out, a throwing or invalid getReserveData gives null, a failed
\* decimals() leaves 18, a failed balance read counts as 0.
AaveResolveReserve(st, reserve, aRead, sRead, vRead) ==
  /\ posPc = "running" /\ posProto = "aave" /\ posIdx < posN
  /\ LET decimals == IF reserve.decimals < 0 THEN AaveDefaultDecimals
                     ELSE reserve.decimals
         a == BalanceOrZero(aRead)
         sd == BalanceOrZero(sRead)
         vd == BalanceOrZero(vRead)
     IN posOut' = IF st = "ok" /\ AaveEmits(a, sd, vd)
                  THEN Append(posOut, AavePosition(posIdx + 1, decimals, a, sd, vd,
                                 reserve.liquidityRate, reserve.variableBorrowRate))
                  ELSE posOut
  /\ posIdx' = posIdx + 1
  /\ posFailed' = IF st = "throws" THEN posFailed \cup {posIdx + 1} ELSE posFailed
  /\ UNCHANGED <<posProto, posPc, posN, posSupported, posResults>>
  /\ UNCHANGED nonPosVars

\* Lines 58-107: six calls per market, pushed in this order.
CompoundReads == <<"balanceOf", "borrowBalanceStored", "exchangeRateStored",
                   "symbol", "decimals", "underlying">>

\* Line 115: const batchSize = 6.
CompoundBatchSize == 6

\* What the chain holds for one market: the wallet's cToken balance and borrow
\* balance, the exchange rate, and which of the six reads reverts (0: none).
CompoundMarkets ==
  {mk \in [cBal : RawAmounts, borrow : RawAmounts, rate : ExchangeRates,
           failed : 0..CompoundBatchSize] :
     mk.failed # 0 =>
       mk.cBal = 5000000 /\ mk.borrow = 1 /\ mk.rate = [num |-> 2, den |-> 10000]}

\* What one read of a market returns; symbol, decimals and underlying only
\* label and format the position and are carried as 0.
CompoundReadData(mk, r) ==
  IF r = 1 THEN mk.cBal
  ELSE IF r = 2 THEN mk.borrow
  ELSE IF r = 3 THEN mk.rate
  ELSE 0

\* Lines 58-107 and Multicall.batchCall: call k is read ((k - 1) % 6) + 1 of
\* market ((k - 1) \div 6) + 1, and result k answers call k. A result keeps
\* the market and the function of its call beside success and data.
CompoundResults(markets) ==
  [k \in 1..(CompoundBatchSize * Len(markets)) |->
     LET mi == ((k - 1) \div CompoundBatchSize) + 1
         r == ((k - 1) % CompoundBatchSize) + 1
     IN [success |-> markets[mi].failed # r,
         data |-> IF markets[mi].failed = r THEN -1
                  ELSE CompoundReadData(markets[mi], r),
         market |-> mi,
         functionName |-> CompoundReads[r]]]

\* Lines 110-111: const results = await multicallInstance.batchCall(calls).
CompoundBatchCall(markets) ==
  /\ posPc = "batch" /\ posProto = "compound"
  /\ Len(markets) = posN
  /\ posResults' = CompoundResults(markets)
  /\ posPc' = "running"
  /\ UNCHANGED <<posProto, posN, posIdx, posOut, posSupported, posFailed>>
  /\ UNCHANGED nonPosVars

\* A variant of CompoundSlice that steps by five results per market.
CompoundSlice_StepFive(results, i) ==
  SubSeq(results, i * 5 + 1, i * 5 + CompoundBatchSize)

\* Lines 117-118: results.slice(i * batchSize, i * batchSize + batchSize),
\* for the 0-based market index i.
CompoundSlice(results, i) ==
  SubSeq(results, i * CompoundBatchSize + 1,
         i * CompoundBatchSize + CompoundBatchSize)

\* compoundService.ts lines 114-170: one market's six results. A market with
\* a failed read is skipped, and so is one without supply or borrow.
CompoundProcessMarket ==
  /\ posPc = "running" /\ posProto = "compound" /\ posIdx < posN
  /\ LET batchResults == CompoundSlice(posResults, posIdx)
         allOk == \A j \in 1..Len(batchResults) : batchResults[j].success
     IN /\ posOut' = IF allOk /\ CompoundEmits(batchResults[1].data,
                                                batchResults[2].data)
                     THEN Append(posOut,
                                 CompoundPosition(posIdx + 1, batchResults[1].data,
                                                  batchResults[2].data,
                                                  batchResults[3].data))
                     ELSE posOut
        /\ posFailed' = IF allOk THEN posFailed ELSE posFailed \cup {posIdx + 1}
  /\ posIdx' = posIdx + 1
  /\ UNCHANGED <<posProto, posPc, posN, posSupported, posResults>>
  /\ UNCHANGED nonPosVars

\* yearnService.ts lines 45-99: one vault. A failed read is caught and the
\* vault skipped; a vault with no balance gives no position.
YearnProcessVault(readsOk, balance, pps, decimals) ==
  /\ posPc = "running" /\ posProto = "yearn" /\ posIdx < posN
  /\ posOut' = IF readsOk /\ balance > 0
               THEN Append(posOut, YearnPosition(posIdx + 1, balance, pps, decimals))
               ELSE posOut
  /\ posIdx' = posIdx + 1
  /\ posFailed' = IF readsOk THEN posFailed ELSE posFailed \cup {posIdx + 1}
  /\ UNCHANGED <<posProto, posPc, posN, posSupported, posResults>>
  /\ UNCHANGED nonPosVars

\* Lido lines 37-81: stETH (object 1), then wstETH (object 2). No read is
\* guarded: a read that throws ends getPositions with that error.
LidoCheckToken(readsOk, held, rate) ==
  /\ posPc = "running" /\ posProto = "lido" /\ posIdx < posN
  /\ IF ~readsOk
     THEN /\ posPc' = "threw"
          /\ UNCHANGED <<posIdx, posOut>>
     ELSE /\ posOut' = IF held > 0
                       THEN Append(posOut, LidoPosition(posIdx + 1, held,
                                             GetPooledEthByShares(held, rate)))
                       ELSE posOut
          /\ posIdx' = posIdx + 1
          /\ UNCHANGED posPc
  /\ posFailed' = IF readsOk THEN posFailed ELSE posFailed \cup {posIdx + 1}
  /\ UNCHANGED <<posProto, posN, posSupported, posResults>>
  /\ UNCHANGED nonPosVars

\* getPositions returns the positions array.
ReturnPositions ==
  /\ posPc = "running" /\ posIdx = posN
  /\ posPc' = "done"
  /\ UNCHANGED <<posProto, posN, posIdx, posOut, posSupported, posFailed,
                 posResults>>
  /\ UNCHANGED nonPosVars

NextPositions ==
  \/ /\ posPc = "idle"
     /\ \E proto \in {"aave", "compound", "lido", "yearn"},
           supported, registryOk \in BOOLEAN, n \in 0..MaxObjects :
             GetPositions(proto, supported, registryOk, n)
  \/ /\ posPc = "running" /\ posProto = "aave" /\ posIdx < posN
     /\ \E st \in {"ok", "throws", "invalid", "zero"}, reserve \in AaveReserves,
           a, sd, vd \in RawReads : AaveResolveReserve(st, reserve, a, sd, vd)
  \/ /\ posPc = "batch"
     /\ \E markets \in [1..posN -> CompoundMarkets] : CompoundBatchCall(markets)
  \/ CompoundProcessMarket
  \/ /\ posPc = "running" /\ posProto = "yearn" /\ posIdx < posN
     /\ \E readsOk \in BOOLEAN, balance \in VaultBalances,
           pps \in PricesPerShare, decimals \in VaultDecimals :
             YearnProcessVault(readsOk, balance, pps, decimals)
  \/ /\ posPc = "running" /\ posProto = "lido" /\ posIdx < posN
     /\ \E readsOk \in BOOLEAN, held \in StakedAmounts, rate \in PoolRates :
             LidoCheckToken(readsOk, held, rate)
  \/ ReturnPositions

SpecPositions == InitPositions /\ [][NextPositions]_vars

----------------------------------------------------------------------------
\* C10 as stated: every position a resolver returns reports at least one
\* strictly positive amount, and comes from an object in which the wallet
\* holds or owes something.
C10_PositionHasPositiveAmount ==
  \A i \in 1..Len(posOut) :
    /\ \E j \in 1..Len(posOut[i].amounts) : posOut[i].amounts[j] > 0
    /\ \E j \in 1..Len(posOut[i].raw) : posOut[i].raw[j] > 0

----------------------------------------------------------------------------
\* C11 as stated: a failure while reading one object of a resolver never makes
\* getPositions raise; the failed object is left out of the result and the
\* resolver goes on to its other objects.
C11_ObjectFailureIsOmitted ==
  posFailed # {} =>
    /\ posPc # "threw"
    /\ \A i \in 1..Len(posOut) : posOut[i].object \notin posFailed
    /\ posPc = "done" => posIdx = posN

----------------------------------------------------------------------------
\* C13 as stated: on a chain without a configuration entry for the protocol,
\* every resolver's getPositions returns an empty list, raises nothing and
\* reads no object.
C13_UnsupportedChainGivesEmptyList ==
  ~posSupported =>
    /\ posPc = "done"
    /\ posOut = <<>>
    /\ posIdx = 0

\* C13 as the code has it: on a chain without a configuration entry no
\* resolver reads any object; Aave and Compound return an empty list, Yearn
\* and Lido raise.
C13_UnsupportedChainSplit ==
  ~posSupported =>
    /\ posOut = <<>>
    /\ posIdx = 0
    /\ posFailed = {}
    /\ posProto \in {"aave", "compound"} => posPc = "done"
    /\ posProto \in {"lido", "yearn"} => posPc = "threw"

\* Yearn was asked for positions on a chain it has no configuration for.
C13_Witness ==
  /\ ~posSupported
  /\ posProto = "yearn"
  /\ posPc = "threw"

----------------------------------------------------------------------------
\* rate / 1e27 * 100 rounded to two places, in hundredths, for a rate in
\* units of 1e21.
C14_PercentOfRay(rate) == (rate + 50) \div 100

\* C14 as stated: the supplyAPY and borrowAPY of every Aave position are the
\* reserve's ray-scaled rates as percentages, rounded to two places; a
\* liquidity rate of 2.5e25 is reported as "2.50".
C14_ApyIsPercentOfRay ==
  \A i \in 1..Len(posOut) :
    posOut[i].protocol = "aave" =>
      /\ posOut[i].apy[1] = C14_PercentOfRay(posOut[i].rates[1])
      /\ posOut[i].apy[2] = C14_PercentOfRay(posOut[i].rates[2])
      /\ posOut[i].rates[1] = 25000 => posOut[i].apy[1] = 250

----------------------------------------------------------------------------
\* C15: every Yearn position comes from a vault with a positive balance b,
\* and its underlying amount u is floor(b * p / 10^d): an integer with
\* u * 10^d <= b * p < (u + 1) * 10^d.
C15_UnderlyingIsFloor ==
  \A i \in 1..Len(posOut) :
    posOut[i].protocol = "yearn" =>
      LET b == posOut[i].raw[1]
          u == posOut[i].amounts[2]
          bp == b * posOut[i].pricePerShare
          scale == Pow10(posOut[i].decimals)
      IN /\ b > 0
         /\ posOut[i].amounts[1] = b
         /\ u \in Nat
         /\ u * scale <= bp
         /\ bp < (u + 1) * scale

\* A Yearn call has returned a position whose b * p is not a multiple of
\* 10^d, after a vault without balance gave none.
C15_Witness ==
  /\ posPc = "done" /\ posProto = "yearn"
  /\ posN = 2 /\ Len(posOut) = 1 /\ posFailed = {}
  /\ (posOut[1].raw[1] * posOut[1].pricePerShare) % Pow10(posOut[1].decimals) # 0

----------------------------------------------------------------------------
\* The result that answers read fn of market i, found by what it answers and
\* not by where it stands.
C38_Answer(i, fn) ==
  CHOOSE res \in {posResults[k] : k \in 1..Len(posResults)} :
    res.market = i /\ res.functionName = fn

\* C38: CompoundService pairs results with markets by position. Results
\* 6i..6i+5 (counted from 0) answer balanceOf, borrowBalanceStored,
\* exchangeRateStored, symbol, decimals and underlying of market i, in that
\* order. A processed market has a position exactly when its six reads
\* succeeded and its cToken balance or borrow balance is positive; that
\* position is the only one of the market and is made of the market's own
\* balance, borrow and exchange rate; positions keep the order of the markets.
C38_MarketsPairedByPosition ==
  (posProto = "compound" /\ posPc \in {"running", "done"}) =>
    /\ Len(posResults) = 6 * posN
    /\ \A i \in 1..posN :
         /\ posResults[6 * (i - 1) + 1].functionName = "balanceOf"
         /\ posResults[6 * (i - 1) + 2].functionName = "borrowBalanceStored"
         /\ posResults[6 * (i - 1) + 3].functionName = "exchangeRateStored"
         /\ posResults[6 * (i - 1) + 4].functionName = "symbol"
         /\ posResults[6 * (i - 1) + 5].functionName = "decimals"
         /\ posResults[6 * (i - 1) + 6].functionName = "underlying"
         /\ \A r \in 1..6 : posResults[6 * (i - 1) + r].market = i
    /\ \A i \in 1..posIdx :
         LET bal == C38_Answer(i, "balanceOf")
             bor == C38_Answer(i, "borrowBalanceStored")
             rate == C38_Answer(i, "exchangeRateStored")
             sixOk == \A k \in 1..Len(posResults) :
                        posResults[k].market = i => posResults[k].success
             at == {j \in 1..Len(posOut) : posOut[j].object = i}
         IN /\ (at # {}) <=> (sixOk /\ (bal.data > 0 \/ bor.data > 0))
            /\ Cardinality(at) <= 1
            /\ \A j \in at :
                 /\ posOut[j].raw = <<bal.data, bor.data>>
                 /\ posOut[j].amounts[2] = bor.data
                 /\ posOut[j].amounts[1] =
                      IF bal.data > 0
                      THEN (bal.data * rate.data.num) \div rate.data.den
                      ELSE 0
    /\ \A j \in 1..Len(posOut) : posOut[j].object \in 1..posIdx
    /\ \A j, k \in 1..Len(posOut) : j < k => posOut[j].object < posOut[k].object

\* A Compound call over two markets has returned: the first market's
\* exchangeRateStored read failed and gave no position, the second market,
\* with a cToken balance of 1 and no borrow, gave the only position.
C38_Witness ==
  /\ posProto = "compound" /\ posPc = "done" /\ posN = 2
  /\ ~posResults[3].success
  /\ posFailed = {1}
  /\ Len(posOut) = 1
  /\ posOut[1].object = 2
  /\ posOut[1].raw = <<1, 0>>

(***************************************************************************)
(* The request handlers: GET /tokens and GET /positions of the server       *)
(* (unnamed/part_006), the CLI's positions command (unnamed/part_005) and  *)
(* main (index.ts)                                                         *)
(***************************************************************************)

\* What a request can carry as walletAddress: nothing, a value that is not a
\* string (a repeated query parameter), a string that is not an address, an
\* address.
WalletInputs == {"missing", "notString", "malformed", "valid"}

\* part_006 lines 32-34: ethers.isAddress(address).
IsValidAddress(w) == w = "valid"

\* A variant of WalletRejected that only looks for a missing walletAddress.
WalletRejected_MissingOnly(w) == w \in {"missing", "notString"}

\* part_006 lines 61-67 and 185-191: !walletAddress || typeof walletAddress
\* !== 'string', then !isValidAddress(walletAddress).
WalletRejected(w) == w \in {"missing", "notString"} \/ ~IsValidAddress(w)

\* part_006 line 194, part_005 line 61, Object.keys(chains).
AllProtocols == <<"aave", "lido", "yearn", "compound">>
CliProtocols == <<"aave", "lido", "yearn">>
ChainKeys == <<"ethereum", "base", "bittensor", "monad">>

\* The names a protocols or chain parameter can list.
ProtocolParams == SUBSET {"aave", "lido", "yearn", "compound", "pendle"}
ChainParams == SUBSET {"ethereum", "base", "monad", "solana"}
CliChains == {"ethereum", "base", "solana"}

\* part_006 lines 70-75 and 195-201, part_005 lines 61-66: every known name
\* when the parameter is absent, else the known names the parameter lists, in
\* the order of the known names.
TargetsOf(all, given, names) ==
  IF given THEN SelectSeq(all, LAMBDA b : b \in names) ELSE all

\* part_005 lines 76, 89 and 102: protocols.aave[chainName], and chainName ===
\* 'ethereum' for Lido and Yearn; protocols.aave has an entry for ethereum
\* only.
CliConfigured(p, chain) == chain = "ethereum"

\* One branch's entry in the report.
Reported(b, what) == [rqReport EXCEPT ![b] = what]

InitRequest ==
  /\ McIdle
  /\ TsIdle
  /\ FwIdle
  /\ PosIdle
  /\ RqIdle
  /\ TbIdle
  /\ PvIdle
  /\ KcIdle
  /\ DsIdle
  /\ UpIdle
  /\ PbIdle

\* A handler that answers at once with status st.
Reject(kind, wallet, targets, st) ==
  /\ rqKind' = kind
  /\ rqWallet' = wallet
  /\ rqTargets' = targets
  /\ rqStatus' = st
  /\ rqPc' = "done"
  /\ UNCHANGED <<rqIdx, rqReport, rqBuilt, rqUpstream, rqFault, rqUsage,
                 rqListening, rqArgv>>

\* A handler that goes on to resolve targets.
Dispatch(kind, wallet, targets) ==
  /\ rqKind' = kind
  /\ rqWallet' = wallet
  /\ rqTargets' = targets
  /\ rqPc' = "dispatch"
  /\ UNCHANGED <<rqIdx, rqReport, rqStatus, rqBuilt, rqUpstream, rqFault, rqUsage,
                 rqListening, rqArgv>>

\* part_006 lines 57-80: GET /tokens up to the dispatch of the chains.
GetTokens(wallet, given, names) ==
  /\ rqPc = "idle"
  /\ LET t == TargetsOf(ChainKeys, given, names)
     IN IF WalletRejected(wallet) THEN Reject("tokens", wallet, <<>>, "400")
        ELSE IF t = <<>> THEN Reject("tokens", wallet, t, "400")
        ELSE Dispatch("tokens", wallet, t)
  /\ UNCHANGED nonRqVars

\* What can go wrong while one chain of GET /tokens is read: nothing; every
\* balance request of getTokenBalances fails; every request to the price
\* source fails; calculatePortfolioValue throws (formatUnits, part_008 line
\* 273, on a balance or a decimals that is not a number).
ChainFaults == {"none", "balances", "prices", "valuation"}

\* part_006 lines 90-154: the entry of one chain.  getTokenBalances catches
\* what its requests throw and returns what it has (tokenService.ts lines
\* 217-220, 247-250 and 267-270), an empty record when all failed;
\* calculatePortfolioValue catches what the price source throws (part_008
\* lines 198-200, 234-236 and 266-268) and values the tokens at 0.  Only an
\* exception reaches the catch of lines 142-154, which gives the entry
\* tokens: [], totalValueUSD: 0 and the error.
\*   "data"     the tokens with their values and the chain's total
\*   "empty"    tokens: [] and totalValueUSD: 0, without error
\*   "unpriced" the tokens with valueUSD 0 and totalValueUSD: 0, without error
\*   "error"    tokens: [], totalValueUSD: 0 and error
ChainEntry(fault) ==
  CASE fault = "none" -> "data"
    [] fault = "balances" -> "empty"
    [] fault = "prices" -> "unpriced"
    [] fault = "valuation" -> "error"

\* part_006 lines 83-156: one chain of GET /tokens.
TokensChain(fault) ==
  /\ rqKind = "tokens" /\ rqPc = "dispatch" /\ rqIdx < Len(rqTargets)
  /\ LET b == rqTargets[rqIdx + 1]
     IN /\ rqUpstream' = rqUpstream \cup {b}
        /\ rqFault' = [rqFault EXCEPT ![b] = fault]
        /\ rqReport' = Reported(b, ChainEntry(fault))
  /\ rqIdx' = rqIdx + 1
  /\ UNCHANGED <<rqKind, rqPc, rqWallet, rqTargets, rqStatus, rqBuilt, rqUsage,
                 rqListening, rqArgv>>
  /\ UNCHANGED nonRqVars

\* part_006 lines 181-215: GET /positions up to the loop over the
\* protocols. Without INFURA_KEY line 211 throws, and lines 256-259 answer
\* 500.
GetPositionsHandler(wallet, given, names, infuraKey) ==
  /\ rqPc = "idle"
  /\ LET t == TargetsOf(AllProtocols, given, names)
     IN IF WalletRejected(wallet) THEN Reject("positions", wallet, <<>>, "400")
        ELSE IF t = <<>> THEN Reject("positions", wallet, t, "400")
        ELSE IF ~infuraKey THEN Reject("positions", wallet, t, "500")
        ELSE Dispatch("positions", wallet, t)
  /\ UNCHANGED nonRqVars

\* part_006 lines 218-250: one protocol of GET /positions. The first case
\* 'yearn' (lines 231-233) only breaks, and the second (lines 239-243) is
\* never reached: for yearn no resolver is built and nothing is reported.
PositionsProtocol(outcome) ==
  /\ rqKind = "positions" /\ rqPc = "dispatch" /\ rqIdx < Len(rqTargets)
  /\ LET p == rqTargets[rqIdx + 1]
     IN IF p = "yearn"
        THEN UNCHANGED <<rqBuilt, rqUpstream, rqReport>>
        ELSE /\ rqBuilt' = rqBuilt \cup {p}
             /\ rqUpstream' = rqUpstream \cup {p}
             /\ rqReport' = Reported(p, IF outcome = "ok" THEN "data" ELSE "error")
  /\ rqIdx' = rqIdx + 1
  /\ UNCHANGED <<rqKind, rqPc, rqWallet, rqTargets, rqStatus, rqFault, rqUsage,
                 rqListening, rqArgv>>
  /\ UNCHANGED nonRqVars

\* part_006 lines 168-172 and 252-255: res.json(...).
Respond ==
  /\ rqKind \in {"tokens", "positions"}
  /\ rqPc = "dispatch" /\ rqIdx = Len(rqTargets)
  /\ rqStatus' = "200"
  /\ rqPc' = "done"
  /\ UNCHANGED <<rqKind, rqWallet, rqTargets, rqIdx, rqReport, rqBuilt, rqUpstream,
                 rqFault, rqUsage,
                 rqListening, rqArgv>>
  /\ UNCHANGED nonRqVars

\* part_005 lines 19-72: the required environment variables, then the
\* positions command up to its try block. rqTargets holds the requested
\* protocols that lines 76, 89 and 102 let through.
CliPositions(envOk, wallet, chain, given, names) ==
  /\ rqPc = "idle"
  /\ LET t == TargetsOf(CliProtocols, given, names)
         ok == /\ envOk
               /\ IsValidAddress(wallet)
               /\ \E i \in 1..Len(ChainKeys) : ChainKeys[i] = chain
               /\ t # <<>>
     IN IF ok
        THEN Dispatch("cli", wallet,
                      SelectSeq(t, LAMBDA p : CliConfigured(p, chain)))
        ELSE Reject("cli", wallet, <<>>, "exit1")
  /\ UNCHANGED nonRqVars

\* part_005 lines 74-122: one protocol of the positions command. All three are
\* inside one try block, whose catch prints the error and exits.
CliProtocol(outcome) ==
  /\ rqKind = "cli" /\ rqPc = "dispatch" /\ rqIdx < Len(rqTargets)
  /\ LET p == rqTargets[rqIdx + 1]
     IN /\ rqBuilt' = rqBuilt \cup {p}
        /\ rqUpstream' = rqUpstream \cup {p}
        /\ rqReport' = Reported(p, IF outcome = "ok" THEN "data" ELSE "error")
  /\ IF outcome = "ok"
     THEN /\ rqIdx' = rqIdx + 1
          /\ UNCHANGED <<rqPc, rqStatus>>
     ELSE /\ rqStatus' = "exit1"
          /\ rqPc' = "done"
          /\ UNCHANGED rqIdx
  /\ UNCHANGED <<rqKind, rqWallet, rqTargets, rqFault, rqUsage,
                 rqListening, rqArgv>>
  /\ UNCHANGED nonRqVars

\* index.ts lines 11-38: main up to the three protocols.
Main(wallet, chain) ==
  /\ rqPc = "idle"
  /\ IF IsValidAddress(wallet) /\ \E i \in 1..Len(ChainKeys) : ChainKeys[i] = chain
     THEN Dispatch("main", wallet, CliProtocols)
     ELSE Reject("main", wallet, <<>>, "exit1")
  /\ UNCHANGED nonRqVars

\* index.ts lines 40-94: one protocol of main, in a try block of its own.
MainProtocol(outcome) ==
  /\ rqKind = "main" /\ rqPc = "dispatch" /\ rqIdx < Len(rqTargets)
  /\ LET p == rqTargets[rqIdx + 1]
     IN /\ rqBuilt' = rqBuilt \cup {p}
        /\ rqUpstream' = rqUpstream \cup {p}
        /\ rqReport' = Reported(p, IF outcome = "ok" THEN "data" ELSE "error")
  /\ rqIdx' = rqIdx + 1
  /\ UNCHANGED <<rqKind, rqPc, rqWallet, rqTargets, rqStatus, rqFault, rqUsage,
                 rqListening, rqArgv>>
  /\ UNCHANGED nonRqVars

\* The command lines without a wallet: none, the three requests for help,
\* the server command, and the positions command without its argument.
CliArgs == {"", "--help", "positions --help", "server --help", "server",
            "positions"}

\* A variant of UsageOf in which only the program has a help option.
UsageOf_ProgramOnly(argv) ==
  IF argv \in {"", "--help"} THEN "program" ELSE "none"

\* part_005 lines 30-41, 125-141: whose usage text a command line asks for.
\* Without arguments line 137 calls program.help(); otherwise
\* program.parse (line 141) meets the help option of the program or of the
\* command it names, prints that usage text (name, description, options)
\* and exits, before any action is called.
UsageOf(argv) ==
  CASE argv \in {"", "--help"} -> "program"
    [] argv = "positions --help" -> "positions"
    [] argv = "server --help" -> "server"
    [] OTHER -> "none"

\* part_005 lines 19-27, 125-141: the CLI started with one of CliArgs.
\* Missing environment variables end the process first; a usage text is
\* printed and the process ends; the server command calls startServer;
\* the positions command without its walletAddress is an error of
\* program.parse.
CliInvoke(envOk, argv) ==
  /\ rqPc = "idle"
  /\ rqKind' = "cli"
  /\ rqPc' = "done"
  /\ rqArgv' = [envOk |-> envOk, argv |-> argv]
  /\ IF ~envOk
     THEN /\ rqStatus' = "exit1"
          /\ UNCHANGED <<rqUsage, rqListening>>
     ELSE IF UsageOf(argv) # "none"
          THEN /\ rqUsage' = UsageOf(argv)
               /\ rqStatus' = "exit0"
               /\ UNCHANGED rqListening
          ELSE IF argv \in {"server", "server --help"}
               THEN /\ rqListening' = TRUE
                    /\ rqStatus' = "listening"
                    /\ UNCHANGED rqUsage
               ELSE /\ rqStatus' = "exit1"
                    /\ UNCHANGED <<rqUsage, rqListening>>
  /\ UNCHANGED <<rqWallet, rqTargets, rqIdx, rqReport, rqBuilt, rqUpstream,
                 rqFault>>
  /\ UNCHANGED nonRqVars

\* The command's action returns and the process ends.
CommandReturns ==
  /\ rqKind \in {"cli", "main"}
  /\ rqPc = "dispatch" /\ rqIdx = Len(rqTargets)
  /\ rqStatus' = "exit0"
  /\ rqPc' = "done"
  /\ UNCHANGED <<rqKind, rqWallet, rqTargets, rqIdx, rqReport, rqBuilt, rqUpstream,
                 rqFault, rqUsage,
                 rqListening, rqArgv>>
  /\ UNCHANGED nonRqVars

NextRequest ==
  \/ \E wallet \in WalletInputs, given \in BOOLEAN, names \in ChainParams :
       GetTokens(wallet, given, names)
  \/ \E fault \in ChainFaults : TokensChain(fault)
  \/ \E wallet \in WalletInputs, given \in BOOLEAN, names \in ProtocolParams,
        infuraKey \in BOOLEAN :
       GetPositionsHandler(wallet, given, names, infuraKey)
  \/ \E outcome \in {"ok", "throws"} : PositionsProtocol(outcome)
  \/ Respond
  \/ \E envOk \in BOOLEAN, wallet \in {"malformed", "valid"},
        chain \in CliChains, given \in BOOLEAN, names \in ProtocolParams :
       CliPositions(envOk, wallet, chain, given, names)
  \/ \E outcome \in {"ok", "throws"} : CliProtocol(outcome)
  \/ \E envOk \in BOOLEAN, argv \in CliArgs : CliInvoke(envOk, argv)
  \/ \E wallet \in {"malformed", "valid"}, chain \in CliChains :
       Main(wallet, chain)
  \/ \E outcome \in {"ok", "throws"} : MainProtocol(outcome)
  \/ CommandReturns

SpecRequest == InitRequest /\ [][NextRequest]_vars

----------------------------------------------------------------------------
\* C12 as stated: when resolving one protocol of a positions request fails,
\* that protocol is reported with an error and every other requested protocol
\* is still resolved and reported, in GET /positions and in the CLI's
\* positions command.
C12_ProtocolFailureIsIsolated ==
  ( /\ rqKind \in {"positions", "cli"}
    /\ rqPc = "done"
    /\ \E i \in 1..Len(rqTargets) : rqReport[rqTargets[i]] = "error" )
  => \A i \in 1..Len(rqTargets) : rqReport[rqTargets[i]] \in {"data", "error"}

----------------------------------------------------------------------------
\* C16: a /tokens or /positions request whose walletAddress is missing or is
\* not an address is answered 400 before any upstream call is made and before
\* any resolver is constructed.
C16_InvalidWalletIsRejectedFirst ==
  (rqKind \in {"tokens", "positions"} /\ rqWallet # "valid") =>
    /\ rqPc = "done"
    /\ rqStatus = "400"
    /\ rqBuilt = {}
    /\ rqUpstream = {}
    /\ rqIdx = 0
    /\ \A b \in BranchNames : rqReport[b] = "none"

\* A /positions request with a string that is not an address was rejected.
C16_Witness ==
  /\ rqKind = "positions"
  /\ rqWallet = "malformed"
  /\ rqStatus = "400"

----------------------------------------------------------------------------
\* C17 as stated: a /tokens or /positions request that passes input
\* validation (a valid wallet address and at least one known chain or
\* protocol) is answered with status 200, whatever fails or is missing.
C17_ValidatedRequestGets200 ==
  ( /\ rqKind \in {"tokens", "positions"}
    /\ rqPc = "done"
    /\ rqWallet = "valid"
    /\ rqTargets # <<>> )
  => rqStatus = "200"

----------------------------------------------------------------------------
\* C22 as stated: when every request to the price source fails while a chain
\* of GET /tokens is valued, the entry of the chain in the report carries an
\* error annotation.
C22_PriceFailureIsAnnotated ==
  \A b \in BranchNames :
    (rqKind = "tokens" /\ rqFault[b] = "prices") => rqReport[b] = "error"

----------------------------------------------------------------------------
\* C23 as stated: in the answer to GET /tokens, a chain whose reading failed
\* entirely (no balance could be fetched, or its valuation threw) has an
\* entry with no tokens, a total of 0 and an error annotation, and every
\* target chain has its entry.
C23_FailedChainIsAnnotated ==
  (rqKind = "tokens" /\ rqPc = "done" /\ rqStatus = "200") =>
    \A i \in 1..Len(rqTargets) :
      LET b == rqTargets[i]
      IN /\ rqReport[b] # "none"
         /\ rqFault[b] \in {"balances", "valuation"} => rqReport[b] = "error"

----------------------------------------------------------------------------
----------------------------------------------------------------------------
\* C31 as stated: the protocols of a /positions request are resolved in
\* parallel, so that once the report of one protocol is in, the resolution
\* of every other requested protocol that has a resolver has started.
C31_ProtocolsStartTogether ==
  (rqKind = "positions" /\ \E b \in BranchNames : rqReport[b] # "none") =>
    \A i \in 1..Len(rqTargets) :
      rqTargets[i] # "yearn" => rqTargets[i] \in rqUpstream

----------------------------------------------------------------------------
\* C37 as stated: the answer 200 to a /positions request has an entry, a
\* list of positions or an error, for each requested protocol and for no
\* other.
C37_OneEntryPerProtocol ==
  (rqKind = "positions" /\ rqPc = "done" /\ rqStatus = "200") =>
    \A b \in {"aave", "lido", "yearn", "compound"} :
      (\E i \in 1..Len(rqTargets) : rqTargets[i] = b)
        <=> rqReport[b] \in {"data", "error"}

(***************************************************************************)
(* TokenService.getTokenBalances and getNativeBalance                      *)
(***************************************************************************)

\* The code's batches hold 10 tokens (line 225). The model's hold 2, so that
\* a list of MaxTokens tokens reaches a second batch.
BATCH_SIZE == 2

\* The chain arguments: one with a block explorer, one without, one that
\* config/chains.ts does not have.
TokenChains == {"ethereum", "bittensor", "solana"}

\* Lines 55-59: chains[chainLower] exists.
ChainSupported(chain) == \E i \in 1..Len(ChainKeys) : ChainKeys[i] = chain

\* A variant of UsesExplorer that does not look at the API key.
UsesExplorer_IgnoresKey(chain, key) == chain \in {"ethereum", "base"}

\* Lines 71-79, 179 and 280: config.baseUrl && config.apiKey. Only ethereum
\* and base get a baseUrl, and their apiKey is the environment's or ''.
UsesExplorer(chain, key) == chain \in {"ethereum", "base"} /\ key

\* The balances a fetch can give, and -1 for a fetch that fails after its
\* retries.
TokenAmounts == {0, 7}
BalanceFetches == TokenAmounts \cup {-1}
\* What getTokenInfo can give: the explorer's record, null, or an error.
InfoFetches == {"full", "null", "throws"}

\* A variant of TokenEntry in which a failed info lookup fails the token.
TokenEntry_InfoFailureFails(bal, info) ==
  IF bal < 0 \/ info = "throws" THEN [balance |-> 0, info |-> "null"]
  ELSE [balance |-> bal, info |-> IF info = "full" THEN "full" ELSE "basic"]

\* Lines 229-250: a failed balance fetch gives balance '0' and info null;
\* otherwise the balance, with the info from getTokenInfo when there is one
\* and the basic info from tokentx when getTokenInfo gives null or throws.
TokenEntry(bal, info) ==
  IF bal < 0 THEN [balance |-> 0, info |-> "null"]
  ELSE [balance |-> bal, info |-> IF info = "full" THEN "full" ELSE "basic"]

\* A variant of NativeSource that always asks the RPC.
NativeSource_RpcOnly(cached, explorer, explorerAns, rpcAns) ==
  IF cached THEN "cache" ELSE IF rpcAns = "ok" THEN "rpc" ELSE "failed"

\* Lines 274-333: where getNativeBalance gets the balance. A live cache entry
\* is returned; else the explorer's 'balance' action when the chain uses the
\* explorer and it answers with status '1'; else provider.getBalance; when
\* that throws too (in each of withRetry's attempts), getNativeBalance throws.
NativeSource(cached, explorer, explorerAns, rpcAns) ==
  IF cached THEN "cache"
  ELSE IF explorer /\ explorerAns = "ok" THEN "explorer"
  ELSE IF rpcAns = "ok" THEN "rpc"
  ELSE "failed"

InitTokens ==
  /\ McIdle
  /\ TsIdle
  /\ FwIdle
  /\ PosIdle
  /\ RqIdle
  /\ TbIdle
  /\ PvIdle
  /\ KcIdle
  /\ DsIdle
  /\ UpIdle
  /\ PbIdle

\* Lines 170-179: getApiConfig, which throws for a chain config/chains.ts
\* does not have (caught at line 267: return {}), then the test for the
\* explorer.
GetTokenBalances(chain, key) ==
  /\ tbPc = "idle"
  /\ tbChain' = chain
  /\ tbKey' = key
  /\ IF ~ChainSupported(chain)
     THEN tbPc' = "done" /\ UNCHANGED tbDiscovery
     ELSE IF UsesExplorer(chain, key)
     THEN tbPc' = "discover" /\ UNCHANGED tbDiscovery
     ELSE tbPc' = "native" /\ tbDiscovery' = "skipped"
  /\ UNCHANGED <<tbTokens, tbIdx, tbResult, tbExplorer, tbRpc, tbNative,
                 tbAnswers, tbFetched>>
  /\ UNCHANGED tbBatchVars
  /\ UNCHANGED nonTbVars

\* Lines 180-210: the 'tokentx' request, which can throw, answer with a
\* status other than '1', or list n distinct tokens.
Discover(answer, n) ==
  /\ tbPc = "discover"
  /\ tbExplorer' = tbExplorer \cup {"tokentx"}
  /\ tbDiscovery' = IF answer = "ok" THEN "ok" ELSE "failed"
  /\ tbTokens' = IF answer = "ok" THEN n ELSE 0
  /\ tbPc' = "native"
  /\ UNCHANGED <<tbChain, tbKey, tbIdx, tbResult, tbRpc, tbNative, tbAnswers,
                 tbFetched>>
  /\ UNCHANGED tbBatchVars
  /\ UNCHANGED nonTbVars

\* Lines 213-220 with getNativeBalance (lines 274-333): result['native'] is
\* set unless getNativeBalance throws.
FetchNative(cached, explorerAns, rpcAns, amount) ==
  /\ tbPc = "native"
  /\ LET explorer == UsesExplorer(tbChain, tbKey)
         source == NativeSource(cached, explorer, explorerAns, rpcAns)
     IN /\ tbNative' = source
        /\ tbAnswers' = [cached |-> cached, explorer |-> explorerAns,
                         rpc |-> rpcAns]
        /\ tbExplorer' = IF ~cached /\ explorer
                         THEN tbExplorer \cup {"balance"} ELSE tbExplorer
        /\ tbRpc' = IF source \in {"rpc", "failed"}
                    THEN tbRpc \cup {"getBalance"} ELSE tbRpc
        /\ tbResult' = IF source = "failed" THEN tbResult
                       ELSE [tbResult EXCEPT ![0] =
                               [balance |-> amount, info |-> "native"]]
  /\ tbPc' = "tokens"
  /\ UNCHANGED <<tbChain, tbKey, tbDiscovery, tbTokens, tbIdx, tbFetched>>
  /\ UNCHANGED tbBatchVars
  /\ UNCHANGED nonTbVars

\* The fetch of a token that has started and not settled.
PendingFetch == [state |-> "pending", balance |-> 0, info |-> "none"]

\* A variant of BatchOf whose batches hold one token more.
BatchOf_OneMore(i, n) == {t \in 1..n : i < t /\ t <= i + BATCH_SIZE + 1}

\* Line 227: discoveredTokens.slice(i, i + BATCH_SIZE), as the numbers of
\* the tokens in it.
BatchOf(i, n) == {t \in 1..n : i < t /\ t <= i + BATCH_SIZE}

\* Line 261: if (i + BATCH_SIZE < discoveredTokens.length).
PauseFollows(i, n) == i + BATCH_SIZE < n

\* Lines 226-251: batch.map(async (token) => ...) starts the fetch of every
\* token of the batch before any of them settles.
StartBatch ==
  /\ tbPc = "tokens" /\ tbIdx < tbTokens
  /\ LET batch == BatchOf(tbIdx, tbTokens)
     IN /\ tbBatch' = [t \in batch |-> PendingFetch]
        /\ tbStarts' = [t \in DOMAIN tbStarts |->
                          IF t \in batch THEN tbStarts[t] + 1 ELSE tbStarts[t]]
  /\ tbPc' = "batch"
  /\ UNCHANGED <<tbChain, tbKey, tbDiscovery, tbTokens, tbIdx, tbResult,
                 tbExplorer, tbRpc, tbNative, tbAnswers, tbFetched, tbPauses>>
  /\ UNCHANGED nonTbVars

\* Lines 228-263: the fetch of one token of the batch settles. When it is the
\* last of the batch to settle, Promise.all resolves: the entries of the
\* batch are merged into the result in the order of the batch, and the
\* pause of lines 261-263 follows unless this was the last batch.
FetchToken(t, bal, info) ==
  /\ tbPc = "batch"
  /\ t \in DOMAIN tbBatch
  /\ tbBatch[t].state = "pending"
  /\ tbExplorer' = tbExplorer \cup {"tokenbalance"}
                     \cup IF bal >= 0 THEN {"tokeninfo"} ELSE {}
  /\ LET settled == [tbBatch EXCEPT ![t] = [state |-> "settled",
                                            balance |-> bal, info |-> info]]
         batch == DOMAIN tbBatch
     IN IF \E u \in batch : settled[u].state = "pending"
        THEN /\ tbBatch' = settled
             /\ UNCHANGED <<tbPc, tbIdx, tbResult, tbFetched>>
        ELSE /\ tbBatch' = <<>>
             /\ tbResult' = [k \in DOMAIN tbResult |->
                               IF k \in batch
                               THEN TokenEntry(settled[k].balance, settled[k].info)
                               ELSE tbResult[k]]
             /\ tbFetched' = tbFetched \o
                               [j \in 1..Cardinality(batch) |->
                                  [balance |-> settled[tbIdx + j].balance,
                                   info |-> settled[tbIdx + j].info]]
             /\ tbIdx' = tbIdx + Cardinality(batch)
             /\ tbPc' = IF PauseFollows(tbIdx, tbTokens) THEN "pause" ELSE "tokens"
  /\ UNCHANGED <<tbChain, tbKey, tbDiscovery, tbTokens, tbRpc, tbNative,
                 tbAnswers, tbStarts, tbPauses>>
  /\ UNCHANGED nonTbVars

\* Lines 261-263: the 500 ms between two batches have passed.
BatchPauseElapses ==
  /\ tbPc = "pause"
  /\ tbPc' = "tokens"
  /\ tbPauses' = tbPauses + 1
  /\ UNCHANGED <<tbChain, tbKey, tbDiscovery, tbTokens, tbIdx, tbResult,
                 tbExplorer, tbRpc, tbNative, tbAnswers, tbFetched, tbBatch,
                 tbStarts>>
  /\ UNCHANGED nonTbVars

\* Line 266: return result.
ReturnBalances ==
  /\ tbPc = "tokens" /\ tbIdx = tbTokens
  /\ tbPc' = "done"
  /\ UNCHANGED <<tbChain, tbKey, tbDiscovery, tbTokens, tbIdx, tbResult,
                 tbExplorer, tbRpc, tbNative, tbAnswers, tbFetched>>
  /\ UNCHANGED tbBatchVars
  /\ UNCHANGED nonTbVars

NextTokens ==
  \/ \E chain \in TokenChains, key \in BOOLEAN : GetTokenBalances(chain, key)
  \/ \E answer \in {"ok", "status0", "throws"}, n \in 0..MaxTokens :
       Discover(answer, n)
  \/ \E cached \in BOOLEAN, explorerAns, rpcAns \in {"ok", "fails"},
        amount \in TokenAmounts :
       FetchNative(cached, explorerAns, rpcAns, amount)
  \/ StartBatch
  \/ /\ tbPc = "batch"
     /\ \E t \in DOMAIN tbBatch, bal \in BalanceFetches, info \in InfoFetches :
          FetchToken(t, bal, info)
  \/ BatchPauseElapses
  \/ ReturnBalances

SpecTokens == InitTokens /\ [][NextTokens]_vars

----------------------------------------------------------------------------
\* The call is for a chain of config/chains.ts and has returned.
C18_Returned == tbPc = "done" /\ tbChain \in {"ethereum", "base", "bittensor", "monad"}

\* Every discovered token has an entry in the result.
C18_TokensReported ==
  /\ Len(tbFetched) = tbTokens
  /\ \A i \in 1..tbTokens : tbResult[i] # NoData

----------------------------------------------------------------------------
\* C19: without a block-explorer API key for the chain, getTokenBalances
\* sends the explorer no request (no discovery, no token balance, no native
\* balance request), and returns at most the native entry, which it has
\* whenever the RPC (or the cache) gave the balance.
C19_NoKeyNoExplorerRequest ==
  (tbPc # "idle" /\ ~tbKey) =>
    /\ tbExplorer = {}
    /\ tbDiscovery \in {"none", "skipped"}
    /\ tbTokens = 0
    /\ \A i \in 1..MaxTokens : tbResult[i] = NoData
    /\ tbNative \in {"none", "cache", "rpc", "failed"}
    /\ C18_Returned =>
         /\ tbDiscovery = "skipped"
         /\ tbNative # "none"
         /\ tbResult[0] # NoData <=> tbNative \in {"cache", "rpc"}
         /\ ~tbAnswers.cached /\ tbAnswers.rpc = "ok" => tbNative = "rpc"

\* A call for ethereum without ETHERSCAN_API_KEY returned the native balance
\* the RPC gave.
C19_Witness ==
  /\ tbPc = "done"
  /\ tbChain = "ethereum" /\ ~tbKey
  /\ tbNative = "rpc"
  /\ tbResult[0] = [balance |-> 7, info |-> "native"]

----------------------------------------------------------------------------
\* C20: a token whose balance fetch failed is in the result with balance '0'
\* and null info; a token whose balance fetch succeeded is in the result with
\* that balance, and with the basic info from discovery when the info lookup
\* gave nothing or failed; every token of every batch has its entry.
C20_TokenFailureIsPerToken ==
  tbPc = "done" =>
    /\ Len(tbFetched) = tbTokens
    /\ \A i \in 1..tbTokens :
         LET f == tbFetched[i]
             e == tbResult[i]
         IN /\ f.balance < 0 => e = [balance |-> 0, info |-> "null"]
            /\ f.balance >= 0 =>
                 /\ e.balance = f.balance
                 /\ e.info = IF f.info = "full" THEN "full" ELSE "basic"

\* The first token's balance fetch failed, the second's info lookup failed,
\* and the third, in the next batch, was fetched in full.
C20_Witness ==
  /\ tbPc = "done"
  /\ tbTokens = 3
  /\ tbFetched[1].balance = -1
  /\ tbFetched[2] = [balance |-> 7, info |-> "throws"]
  /\ tbFetched[3] = [balance |-> 7, info |-> "full"]
  /\ tbResult[3] = [balance |-> 7, info |-> "full"]

----------------------------------------------------------------------------
\* The tokens whose fetch has started and not settled.
C32_InFlight == {t \in DOMAIN tbBatch : tbBatch[t].state = "pending"}

\* The batch of token t, the first batch being 0.
C32_BatchNo(t) == (t - 1) \div BATCH_SIZE

\* C32: discovered tokens are fetched in consecutive batches of at most
\* BATCH_SIZE. No more than BATCH_SIZE fetches are in flight; no token is
\* fetched twice and the started tokens are a prefix of the list; while a
\* fetch of batch k is in flight no token of a later batch has started, every
\* earlier batch is in the result and exactly k pauses have elapsed; a token
\* of batch k starts only after k pauses; a pause is only taken while tokens
\* remain, so none follows the last batch; and when the call returns every
\* discovered token was fetched once.
C32_BatchesInOrder ==
  /\ Cardinality(C32_InFlight) <= BATCH_SIZE
  /\ \A t \in 1..MaxTokens :
       /\ tbStarts[t] <= 1
       /\ tbStarts[t] = 1 =>
            /\ t <= tbTokens
            /\ tbPauses >= C32_BatchNo(t)
            /\ \A u \in 1..t : tbStarts[u] = 1
  /\ \A t \in C32_InFlight :
       /\ tbPauses = C32_BatchNo(t)
       /\ \A u \in 1..tbTokens :
            /\ C32_BatchNo(u) > C32_BatchNo(t) => tbStarts[u] = 0
            /\ C32_BatchNo(u) < C32_BatchNo(t) =>
                 tbStarts[u] = 1 /\ tbResult[u] # NoData
  /\ tbPc = "pause" =>
       /\ C32_InFlight = {}
       /\ \E t \in 1..tbTokens : tbStarts[t] = 0
  /\ tbPc = "done" =>
       /\ C32_InFlight = {}
       /\ \A t \in 1..tbTokens : tbStarts[t] = 1
       /\ tbPauses = IF tbTokens = 0 THEN 0 ELSE C32_BatchNo(tbTokens)

\* Three tokens were discovered: the two of the first batch are in the
\* result, one pause has elapsed, and the third token's fetch is in flight.
C32_Witness ==
  /\ tbPc = "batch"
  /\ tbTokens = 3
  /\ C32_InFlight = {3}
  /\ tbPauses = 1
  /\ tbResult[1] # NoData /\ tbResult[2] # NoData
  /\ tbStarts = [t \in 1..MaxTokens |-> 1]

----------------------------------------------------------------------------
\* PriceService.calculatePortfolioValue (unnamed/part_008, lines 158-282).
\*
\* Prices are whole cents and a valueUSD is counted in units of 1e-6 cent, so
\* that balance / 10^decimals * price is exact for the decimals used here.

\* The most tokens one call values.
MaxPriced == 3

\* The tokens a call can be given: a 6-decimal token whose symbol is in the
\* fallback table, a 4-decimal token whose symbol is not, and the native
\* currency of ethereum.
PricedTokens ==
  { [address |-> "usdc", chainKey |-> "ethereum", type |-> "ERC20",
     symbol |-> "USDC", decimals |-> 6, balance |-> 1000000],
    [address |-> "xyz", chainKey |-> "base", type |-> "ERC20",
     symbol |-> "XYZ", decimals |-> 4, balance |-> 10000],
    [address |-> "native", chainKey |-> "ethereum", type |-> "NATIVE",
     symbol |-> "ETH", decimals |-> 6, balance |-> 500000] }

\* symbolToCoingeckoIdFallback, restricted to the symbols of PricedTokens.
symbolToCoingeckoIdFallback == {"USDC"}

\* What the price source answers, in cents: by contract address, by fallback
\* id, and for the native currency.
AddressPriceOf(address) == IF address = "usdc" THEN 100 ELSE 250
FallbackPrice == 101
NativePrice == 300

\* The states of the price source: down (every request fails), or up with
\* the contract addresses it knows, and whether it knows the fallback id and
\* the native currency.
PriceEnvs ==
  { e \in [down : BOOLEAN, found : SUBSET {"usdc", "xyz"},
           symbolOk : BOOLEAN, nativeOk : BOOLEAN] :
      e.down => (e.found = {} /\ ~e.symbolOk /\ ~e.nativeOk) }

\* ethers.formatUnits followed by the multiplication by the price (lines
\* 273-274).
ValueUSD_IgnoresDecimals(balance, decimals, price) == balance * price
ValueUSD(balance, decimals, price) == balance * price * Pow10(6 - decimals)

\* One += of lines 278-279.
AddValue_Overwrite(sum, valueUSD) == valueUSD
AddValue(sum, valueUSD) == sum + valueUSD

\* Lines 242-271: the price of one token, with the way it was found, whether
\* the fallback was looked up, and the request and the priceMap entry the
\* fallback lookup adds.
PriceOf_FallbackFirst(token, priceMap, env) ==
  IF token.type = "NATIVE"
  THEN [price |-> priceMap.native,
        via |-> IF priceMap.native > 0 THEN "native" ELSE "none",
        tried |-> FALSE, request |-> {}, fallback |-> priceMap.fallback]
  ELSE IF token.symbol \in symbolToCoingeckoIdFallback /\ env.symbolOk
       THEN [price |-> FallbackPrice, via |-> "symbol", tried |-> TRUE,
             request |-> {<<"fallback", token.symbol>>},
             fallback |-> FallbackPrice]
       ELSE [price |-> IF token.address \in priceMap.address
                       THEN AddressPriceOf(token.address) ELSE 0,
             via |-> IF token.address \in priceMap.address
                     THEN "address" ELSE "none",
             tried |-> token.symbol \in symbolToCoingeckoIdFallback,
             request |-> {}, fallback |-> priceMap.fallback]

PriceOf(token, priceMap, env) ==
  IF token.type = "NATIVE"
  THEN [price |-> priceMap.native,
        via |-> IF priceMap.native > 0 THEN "native" ELSE "none",
        tried |-> FALSE, request |-> {}, fallback |-> priceMap.fallback]
  ELSE IF token.address \in priceMap.address
       THEN [price |-> AddressPriceOf(token.address), via |-> "address",
             tried |-> FALSE, request |-> {}, fallback |-> priceMap.fallback]
       ELSE IF token.symbol \notin symbolToCoingeckoIdFallback
            THEN [price |-> 0, via |-> "none", tried |-> FALSE,
                  request |-> {}, fallback |-> priceMap.fallback]
            ELSE IF priceMap.fallback > 0
                 THEN [price |-> priceMap.fallback, via |-> "symbol",
                       tried |-> TRUE, request |-> {},
                       fallback |-> priceMap.fallback]
                 ELSE IF env.symbolOk
                      THEN [price |-> FallbackPrice, via |-> "symbol",
                            tried |-> TRUE,
                            request |-> {<<"fallback", token.symbol>>},
                            fallback |-> FallbackPrice]
                      ELSE [price |-> 0, via |-> "none", tried |-> TRUE,
                            request |-> {<<"fallback", token.symbol>>},
                            fallback |-> 0]

InitValuation ==
  /\ McIdle
  /\ TsIdle
  /\ FwIdle
  /\ PosIdle
  /\ RqIdle
  /\ TbIdle
  /\ PvIdle
  /\ KcIdle
  /\ DsIdle
  /\ UpIdle
  /\ PbIdle

\* Lines 158-173: a call with a list of tokens, the price source being in
\* some state.
CalculatePortfolioValue(tokens, env) ==
  /\ pvPc = "idle"
  /\ pvRun = 0
  /\ pvPc' = "native"
  /\ pvRun' = 1
  /\ pvTokens' = tokens
  /\ pvEnv' = env
  /\ pvLeft' = 1..Len(tokens)
  /\ UNCHANGED <<pvPriceMap, pvOut, pvByChain, pvTotal, pvRequests, pvFirst>>
  /\ UNCHANGED nonPvVars

\* Lines 175-201: one request for the prices of the native currencies of
\* the tokens, if there is any; a failure is logged and nothing more.
FetchNativePrices ==
  /\ pvPc = "native"
  /\ LET wanted == \E i \in 1..Len(pvTokens) : pvTokens[i].type = "NATIVE"
     IN /\ pvRequests' = IF wanted THEN pvRequests \cup {<<"native", "ethereum">>}
                         ELSE pvRequests
        /\ pvPriceMap' =
             [pvPriceMap EXCEPT
                !.native = IF wanted /\ pvEnv.nativeOk THEN NativePrice ELSE 0]
  /\ pvPc' = "erc20"
  /\ UNCHANGED <<pvRun, pvTokens, pvEnv, pvLeft, pvOut, pvByChain, pvTotal,
                 pvFirst>>
  /\ UNCHANGED nonPvVars

\* Lines 203-238: for each chain with ERC20 tokens, one request for their
\* prices by contract address; a failure is logged and nothing more.
FetchTokenPrices ==
  /\ pvPc = "erc20"
  /\ LET erc20 == {i \in 1..Len(pvTokens) : pvTokens[i].type # "NATIVE"}
     IN /\ pvRequests' =
             pvRequests \cup {<<"erc20", pvTokens[i].chainKey>> : i \in erc20}
        /\ pvPriceMap' =
             [pvPriceMap EXCEPT
                !.address = {pvTokens[i].address : i \in erc20} \cap pvEnv.found]
  /\ pvPc' = "value"
  /\ UNCHANGED <<pvRun, pvTokens, pvEnv, pvLeft, pvOut, pvByChain, pvTotal,
                 pvFirst>>
  /\ UNCHANGED nonPvVars

\* Lines 241-280: one turn of the loop, for the token at position i.  The
\* first call takes the tokens in the order of the list; the second call is
\* given the same tokens in any order.
ValueToken(i) ==
  /\ pvPc = "value"
  /\ i \in pvLeft
  /\ pvRun = 1 => \A j \in pvLeft : i <= j
  /\ LET token == pvTokens[i]
         found == PriceOf(token, pvPriceMap, pvEnv)
         valueUSD == ValueUSD(token.balance, token.decimals, found.price)
     IN /\ pvOut' = Append(pvOut, [token |-> token, price |-> found.price,
                                   via |-> found.via, tried |-> found.tried,
                                   valueUSD |-> valueUSD])
        /\ pvPriceMap' = [pvPriceMap EXCEPT !.fallback = found.fallback]
        /\ pvRequests' = pvRequests \cup found.request
        /\ pvByChain' =
             [pvByChain EXCEPT
                ![token.chainKey] = AddValue(pvByChain[token.chainKey], valueUSD)]
        /\ pvTotal' = AddValue(pvTotal, valueUSD)
  /\ pvLeft' = pvLeft \ {i}
  /\ UNCHANGED <<pvPc, pvRun, pvTokens, pvEnv, pvFirst>>
  /\ UNCHANGED nonPvVars

\* Line 281: return valuation.
ReturnValuation ==
  /\ pvPc = "value"
  /\ pvLeft = {}
  /\ pvPc' = "done"
  /\ pvFirst' = IF pvRun = 1
                THEN [byChain |-> pvByChain, total |-> pvTotal]
                ELSE pvFirst
  /\ UNCHANGED <<pvRun, pvTokens, pvEnv, pvPriceMap, pvLeft, pvOut, pvByChain,
                 pvTotal, pvRequests>>
  /\ UNCHANGED nonPvVars

\* Lines 158-173 again: a second call with the same tokens, the price source
\* being as it was.
CalculateAgain ==
  /\ pvPc = "done"
  /\ pvRun = 1
  /\ pvPc' = "native"
  /\ pvRun' = 2
  /\ pvPriceMap' = EmptyPriceMap
  /\ pvLeft' = 1..Len(pvTokens)
  /\ pvOut' = <<>>
  /\ pvByChain' = [c \in PricedChains |-> 0]
  /\ pvTotal' = 0
  /\ pvRequests' = {}
  /\ UNCHANGED <<pvTokens, pvEnv, pvFirst>>
  /\ UNCHANGED nonPvVars

NextValuation ==
  \/ /\ pvPc = "idle"
     /\ \E tokens \in BoundedSeq(PricedTokens, MaxPriced), env \in PriceEnvs :
          CalculatePortfolioValue(tokens, env)
  \/ FetchNativePrices
  \/ FetchTokenPrices
  \/ \E i \in 1..MaxPriced : ValueToken(i)
  \/ ReturnValuation
  \/ CalculateAgain

SpecValuation == InitValuation /\ [][NextValuation]_vars

----------------------------------------------------------------------------
\* C21: an ERC20 token whose contract address the price source knows is
\* priced by address and the fallback is not looked up; the fallback is
\* looked up only for a token without a price by address whose symbol is in
\* the fallback table; a token that neither gives a price has price 0 and
\* valueUSD 0, and is in the result all the same.
C21_PricingOrder ==
  \A k \in 1..Len(pvOut) :
    LET e == pvOut[k]
        byAddress == e.token.address \in pvEnv.found
        inTable == e.token.symbol = "USDC"
    IN e.token.type = "ERC20" =>
         /\ byAddress =>
              /\ e.via = "address"
              /\ e.price = AddressPriceOf(e.token.address)
         /\ e.tried <=> (~byAddress /\ inTable)
         /\ (~byAddress /\ inTable /\ pvEnv.symbolOk) =>
              (e.via = "symbol" /\ e.price = FallbackPrice)
         /\ (~byAddress /\ ~(inTable /\ pvEnv.symbolOk)) =>
              (e.via = "none" /\ e.price = 0 /\ e.valueUSD = 0)

\* A call returned with a token of the table priced by the fallback and with
\* the other ERC20 token, whose balance is positive, at price 0 and value 0.
C21_Witness ==
  /\ pvPc = "done"
  /\ \E k \in 1..Len(pvOut) :
       pvOut[k].via = "symbol" /\ pvOut[k].valueUSD > 0
  /\ \E k \in 1..Len(pvOut) :
       /\ pvOut[k].token.address = "xyz"
       /\ pvOut[k].token.balance > 0
       /\ pvOut[k].via = "none"
       /\ pvOut[k].valueUSD = 0

----------------------------------------------------------------------------
\* The sum of the valueUSD of the entries of a result that are on one of
\* the given chains.
RECURSIVE C24_SumOn(_, _)
C24_SumOn(out, chainKeys) ==
  IF out = <<>> THEN 0
  ELSE (IF Head(out).token.chainKey \in chainKeys
        THEN Head(out).valueUSD ELSE 0) + C24_SumOn(Tail(out), chainKeys)

\* C24: the valueUSD of a token is its raw balance over 10^decimals times its
\* unit price (1000000 raw units of 6 decimals at 100 cents are worth 100
\* cents); the total of a chain is the sum of the valueUSD of the tokens of
\* the chain, and the overall total is the sum of the totals of the chains.
\* (Every balance of PricedTokens is worth a whole number of cents.)
C24_ValueIsBalanceTimesPrice ==
  /\ \A k \in 1..Len(pvOut) :
       LET e == pvOut[k]
       IN /\ e.valueUSD % 1000000 = 0
          /\ (e.valueUSD \div 1000000) * Pow10(e.token.decimals) =
               e.token.balance * e.price
          /\ (e.token.balance = 1000000 /\ e.token.decimals = 6
              /\ e.price = 100) => e.valueUSD = 100 * 1000000
  /\ \A c \in PricedChains : pvByChain[c] = C24_SumOn(pvOut, {c})
  /\ pvTotal = pvByChain["ethereum"] + pvByChain["base"]
  /\ pvTotal = C24_SumOn(pvOut, PricedChains)

\* A call returned with the 6-decimal token at 1.00 dollar and the 4-decimal
\* token at 2.50 dollars: 1.00 and 2.50 dollars on their chains, 3.50 in all.
C24_Witness ==
  /\ pvPc = "done"
  /\ Len(pvOut) = 2
  /\ pvByChain["ethereum"] = 100 * 1000000
  /\ pvByChain["base"] = 250 * 1000000
  /\ pvTotal = 350 * 1000000

----------------------------------------------------------------------------
\* A valueUSD in whole cents.
C25_Cents(valueUSD) == valueUSD \div 1000000

PRICE_BATCH_SIZE == 2

\* The most tokens one call is given.
MaxBatched == 4

\* coingeckoPlatformMap (lines 138-143) on PbChainKeys; monad has null.
coingeckoPlatformMap ==
  [ethereum |-> "ethereum", base |-> "base-mainnet", monad |-> "null"]

\* What the handler passes for one entry of getTokenBalances' result: the
\* chain and the type. The entries of one result have distinct keys, so the
\* token at position i of the list is given the address i.
PbShapes == [chainKey : PbChainKeys, type : {"ERC20", "NATIVE"}]

PbInput(shape) ==
  [i \in 1..Len(shape) |->
     [address |-> i, chainKey |-> shape[i].chainKey, type |-> shape[i].type]]

\* Line 206: token.type !== 'NATIVE' && ethers.isAddress(token.address) &&
\* this.coingeckoPlatformMap[token.chainKey]. The key of every entry that is
\* not the native one is an address.
Priceable(token) ==
  token.type # "NATIVE" /\ coingeckoPlatformMap[token.chainKey] # "null"

\* Lines 204-212 and 218: per chain, the addresses of its priceable tokens in
\* the order of the list.
Erc20TokensByChain(tokens) ==
  [c \in PbChainKeys |->
     LET sel == SelectSeq(tokens, LAMBDA t : Priceable(t) /\ t.chainKey = c)
     IN [j \in 1..Len(sel) |-> sel[j].address]]

\* Line 214: Object.keys(erc20TokensByChain), the chains in the order in
\* which their first priceable token stands in the list.
RECURSIVE KeysInOrder(_, _)
KeysInOrder(tokens, keys) ==
  IF Len(tokens) = 0 THEN keys
  ELSE LET t == Head(tokens)
       IN KeysInOrder(Tail(tokens),
                      IF Priceable(t) /\ \A j \in 1..Len(keys) : keys[j] # t.chainKey
                      THEN Append(keys, t.chainKey) ELSE keys)

\* A variant of PriceBatch that sends all the addresses of the chain.
PriceBatch_Whole(addresses, i) == addresses

\* Line 223: addresses.slice(i, i + BATCH_SIZE).
PriceBatch(addresses, i) ==
  SubSeq(addresses, i + 1,
         IF i + PRICE_BATCH_SIZE < Len(addresses)
         THEN i + PRICE_BATCH_SIZE ELSE Len(addresses))

InitPriceBatches ==
  /\ McIdle
  /\ TsIdle
  /\ FwIdle
  /\ PosIdle
  /\ RqIdle
  /\ TbIdle
  /\ PvIdle
  /\ KcIdle
  /\ DsIdle
  /\ UpIdle
  /\ PbIdle

\* Lines 203-212: the priceable tokens of the argument are grouped by chain.
GroupErc20Tokens(shape) ==
  /\ pbPc = "idle"
  /\ LET tokens == PbInput(shape)
     IN /\ pbTokens' = tokens
        /\ pbByChain' = Erc20TokensByChain(tokens)
        /\ pbChains' = KeysInOrder(tokens, <<>>)
  /\ pbPc' = "batches"
  /\ UNCHANGED <<pbI, pbRequests, pbPriceMap>>
  /\ UNCHANGED nonPbVars

\* Lines 222-236: one turn of the inner loop. The request for one batch is
\* in its own try/catch: when it succeeds its prices go into priceMap, when
\* it fails the error is logged and the loop goes on.
FetchPriceBatch(ok) ==
  /\ pbPc = "batches" /\ Len(pbChains) > 0
  /\ LET chainKey == Head(pbChains)
         addresses == pbByChain[chainKey]
         batch == PriceBatch(addresses, pbI)
     IN /\ pbRequests' = Append(pbRequests,
                                [chainKey |-> chainKey,
                                 platformId |-> coingeckoPlatformMap[chainKey],
                                 addresses |-> batch, ok |-> ok])
        /\ pbPriceMap' = IF ok
                         THEN pbPriceMap \cup
                                {<<chainKey, batch[j]>> : j \in 1..Len(batch)}
                         ELSE pbPriceMap
        /\ IF pbI + PRICE_BATCH_SIZE < Len(addresses)
           THEN pbI' = pbI + PRICE_BATCH_SIZE /\ UNCHANGED pbChains
           ELSE pbI' = 0 /\ pbChains' = Tail(pbChains)
  /\ UNCHANGED <<pbPc, pbTokens, pbByChain>>
  /\ UNCHANGED nonPbVars

\* Line 238: the loop over the chains has ended.
PriceBatchesDone ==
  /\ pbPc = "batches" /\ Len(pbChains) = 0
  /\ pbPc' = "done"
  /\ UNCHANGED <<pbTokens, pbByChain, pbChains, pbI, pbRequests, pbPriceMap>>
  /\ UNCHANGED nonPbVars

NextPriceBatches ==
  \/ /\ pbPc = "idle"
     /\ \E shape \in BoundedSeq(PbShapes, MaxBatched) : GroupErc20Tokens(shape)
  \/ \E ok \in BOOLEAN : FetchPriceBatch(ok)
  \/ PriceBatchesDone

SpecPriceBatches == InitPriceBatches /\ [][NextPriceBatches]_vars

----------------------------------------------------------------------------
\* Where the address a stands in the requests made: the request and the
\* place in it.
C33_Carried(a) ==
  {rj \in (1..Len(pbRequests)) \X (1..Len(pbTokens)) :
     /\ rj[2] <= Len(pbRequests[rj[1]].addresses)
     /\ pbRequests[rj[1]].addresses[rj[2]] = a}

\* C33: each price-by-contract-address request carries between 1 and
\* PRICE_BATCH_SIZE addresses, all of ERC20 tokens of the request's chain, a
\* chain with a platform id; no address is carried twice; when the requests
\* are over, every priceable ERC20 address was carried exactly once and no
\* other address at all; and an address has a price exactly when the request
\* that carried it succeeded, whatever became of the other requests.
C33_PriceRequestsAreBatched ==
  /\ \A r \in 1..Len(pbRequests) :
       LET req == pbRequests[r]
       IN /\ Len(req.addresses) >= 1
          /\ Len(req.addresses) <= PRICE_BATCH_SIZE
          /\ req.chainKey \in {"ethereum", "base"}
          /\ \A j \in 1..Len(req.addresses) :
               /\ req.addresses[j] \in 1..Len(pbTokens)
               /\ pbTokens[req.addresses[j]].chainKey = req.chainKey
               /\ pbTokens[req.addresses[j]].type = "ERC20"
  /\ \A a \in 1..Len(pbTokens) :
       LET priceable == /\ pbTokens[a].type = "ERC20"
                        /\ pbTokens[a].chainKey \in {"ethereum", "base"}
           priced == <<pbTokens[a].chainKey, a>> \in pbPriceMap
       IN /\ Cardinality(C33_Carried(a)) <= 1
          /\ priced <=> \E rj \in C33_Carried(a) : pbRequests[rj[1]].ok
          /\ pbPc = "done" =>
               Cardinality(C33_Carried(a)) = IF priceable THEN 1 ELSE 0
  /\ Cardinality(pbPriceMap) <= Len(pbTokens)

\* Three ERC20 tokens of ethereum and one of base were priced in three
\* requests: the first, with two ethereum addresses, failed; the second, with
\* the third ethereum address, and the third, for base, succeeded.
C33_Witness ==
  /\ pbPc = "done"
  /\ Len(pbRequests) = 3
  /\ pbRequests[1].chainKey = "ethereum" /\ Len(pbRequests[1].addresses) = 2
  /\ ~pbRequests[1].ok
  /\ pbRequests[2].chainKey = "ethereum" /\ pbRequests[2].ok
  /\ pbRequests[3].chainKey = "base" /\ pbRequests[3].ok
  /\ Cardinality(pbPriceMap) = 2

(***************************************************************************)
(* The keys of TokenService's cache: getTokenBalance, getTokenInfo and     *)
(* getNativeBalance (tokenService.ts)                                      *)
(***************************************************************************)

\* The most calls made.
MaxKeyed == 3

\* The arguments of the calls.  One address is both a wallet and a token
\* contract.  getTokenInfo takes no wallet, getNativeBalance no token.
KeyChains == {"ethereum", "base"}
KeyWallets == {"0xaa", "0xbb"}
KeyTokens == {"0xaa", "0xcc"}

KeyedCalls ==
  [op : {"balance"}, chain : KeyChains, wallet : KeyWallets, token : KeyTokens]
  \cup [op : {"tokenInfo"}, chain : KeyChains, wallet : {""}, token : KeyTokens]
  \cup [op : {"native"}, chain : KeyChains, wallet : KeyWallets, token : {""}]

\* A variant of CacheKey whose balance key leaves the wallet out.
CacheKey_WithoutWallet(call) ==
  CASE call.op = "balance" -> "balance_" \o call.chain \o "_" \o call.token
    [] call.op = "tokenInfo" -> "tokenInfo_" \o call.chain \o "_" \o call.token
    [] call.op = "native" -> "native_" \o call.chain \o "_" \o call.wallet

\* Lines 125, 151 and 276: the template strings of the three cache keys.
CacheKey(call) ==
  CASE call.op = "balance" ->
         "balance_" \o call.chain \o "_" \o call.wallet \o "_" \o call.token
    [] call.op = "tokenInfo" -> "tokenInfo_" \o call.chain \o "_" \o call.token
    [] call.op = "native" -> "native_" \o call.chain \o "_" \o call.wallet

InitKeys ==
  /\ McIdle
  /\ TsIdle
  /\ FwIdle
  /\ PosIdle
  /\ RqIdle
  /\ TbIdle
  /\ PvIdle
  /\ KcIdle
  /\ DsIdle
  /\ UpIdle
  /\ PbIdle

\* Lines 91-102 under the key of the call: an entry under that key is
\* returned, otherwise the call's own result is stored under it.
KeyedGetWithCache(call) ==
  /\ kcCalls < MaxKeyed
  /\ kcCalls' = kcCalls + 1
  /\ LET key == CacheKey(call)
     IN IF key \in DOMAIN kcStore
        THEN /\ kcServed' = kcServed \cup {[asked |-> call, stored |-> kcStore[key]]}
             /\ UNCHANGED kcStore
        ELSE /\ kcStore' = [k \in DOMAIN kcStore \cup {key} |->
                              IF k = key THEN call ELSE kcStore[k]]
             /\ UNCHANGED kcServed
  /\ UNCHANGED nonKcVars

\* Line 95: the entry under a key is past its expiry, and counts no more.
KeyedEntryExpires(key) ==
  /\ key \in DOMAIN kcStore
  /\ kcStore' = [k \in DOMAIN kcStore \ {key} |-> kcStore[k]]
  /\ UNCHANGED <<kcServed, kcCalls>>
  /\ UNCHANGED nonKcVars

NextKeys ==
  \/ /\ kcCalls < MaxKeyed
     /\ \E call \in KeyedCalls : KeyedGetWithCache(call)
  \/ \E key \in DOMAIN kcStore : KeyedEntryExpires(key)

SpecKeys == InitKeys /\ [][NextKeys]_vars

----------------------------------------------------------------------------
\* C27: two calls that differ in operation, chain, wallet or token have
\* different cache keys, and a call served from the cache gets the entry a
\* call with the same operation, chain, wallet and token had stored.
C27_KeysSeparateCalls ==
  /\ \A a, b \in KeyedCalls : a # b => CacheKey(a) # CacheKey(b)
  /\ \A s \in kcServed : s.asked = s.stored

\* The native balance of a wallet and the token info of the contract at the
\* same address are both stored, and a second native call was served its own.
C27_Witness ==
  /\ "native_ethereum_0xaa" \in DOMAIN kcStore
  /\ "tokenInfo_ethereum_0xaa" \in DOMAIN kcStore
  /\ \E s \in kcServed : s.asked.op = "native" /\ s.asked.wallet = "0xaa"

(***************************************************************************)
(* Token discovery: the loop of getTokenBalances over the wallet's token   *)
(* transfers (tokenService.ts lines 193-206)                               *)
(***************************************************************************)

\* The most records a history has.
MaxHistory == 4

\* ethers' ZeroAddress, shortened.
ZeroAddress == "0x00"

\* What a record can carry as contractAddress: one contract in three
\* spellings, another contract, the zero address, and the empty string.
HistoryAddresses == {"0xAb", "0xab", "0xAB", "0xcd", ZeroAddress, ""}

\* A variant of ToLowerCase that leaves the string as it is.
ToLowerCase_Identity(a) == a

\* String.prototype.toLowerCase on the strings of HistoryAddresses.
ToLowerCase(a) == IF a \in {"0xAb", "0xAB"} THEN "0xab" ELSE a

InitDiscovery ==
  /\ McIdle
  /\ TsIdle
  /\ FwIdle
  /\ PosIdle
  /\ RqIdle
  /\ TbIdle
  /\ PvIdle
  /\ KcIdle
  /\ DsIdle
  /\ UpIdle
  /\ PbIdle

\* Lines 193-194: the explorer answered with a list of token transfers.
DiscoverTokens(history) ==
  /\ dsPc = "idle"
  /\ dsPc' = "loop"
  /\ dsHistory' = history
  /\ UNCHANGED <<dsIdx, dsMap, dsTokens>>
  /\ UNCHANGED nonDsVars

\* Lines 195-204: one record.  Its address in lower case is added to the map
\* unless it is empty, the zero address, or a key of the map already.
ReadTransfer ==
  /\ dsPc = "loop"
  /\ dsIdx < Len(dsHistory)
  /\ LET tokenAddress == ToLowerCase(dsHistory[dsIdx + 1])
         known == \E k \in 1..Len(dsMap) : dsMap[k] = tokenAddress
     IN dsMap' = IF /\ tokenAddress # ""
                    /\ tokenAddress # ToLowerCase(ZeroAddress)
                    /\ ~known
                 THEN Append(dsMap, tokenAddress)
                 ELSE dsMap
  /\ dsIdx' = dsIdx + 1
  /\ UNCHANGED <<dsPc, dsHistory, dsTokens>>
  /\ UNCHANGED nonDsVars

\* Line 205: the values of the map, without the zero address.
CollectTokens ==
  /\ dsPc = "loop"
  /\ dsIdx = Len(dsHistory)
  /\ dsTokens' =
       SelectSeq(dsMap, LAMBDA a : ToLowerCase(a) # ToLowerCase(ZeroAddress))
  /\ dsPc' = "done"
  /\ UNCHANGED <<dsHistory, dsIdx, dsMap>>
  /\ UNCHANGED nonDsVars

NextDiscovery ==
  \/ /\ dsPc = "idle"
     /\ \E history \in BoundedSeq(HistoryAddresses, MaxHistory) :
          DiscoverTokens(history)
  \/ ReadTransfer
  \/ CollectTokens

SpecDiscovery == InitDiscovery /\ [][NextDiscovery]_vars

----------------------------------------------------------------------------
\* An address without regard to the case of its letters.
C28_Folded(a) ==
  CASE a = "0xAb" -> "0xab"
    [] a = "0xAB" -> "0xab"
    [] OTHER -> a

\* C28: the discovered tokens hold no contract twice, whatever the case of
\* the letters of its address in the records, and neither the zero address
\* nor an empty address; every other address of the history is among them.
C28_CandidatesAreDistinct ==
  dsPc = "done" =>
    /\ \A i, j \in 1..Len(dsTokens) :
         i # j => C28_Folded(dsTokens[i]) # C28_Folded(dsTokens[j])
    /\ \A i \in 1..Len(dsTokens) : dsTokens[i] \notin {"0x00", ""}
    /\ \A k \in 1..Len(dsHistory) :
         dsHistory[k] \notin {"0x00", ""} =>
           \E i \in 1..Len(dsTokens) :
             C28_Folded(dsTokens[i]) = C28_Folded(dsHistory[k])

\* A history with one contract in two spellings, around the zero address and
\* another contract, gave two tokens.
C28_Witness ==
  /\ dsPc = "done"
  /\ dsHistory = <<"0xAb", "0x00", "0xcd", "0xab">>
  /\ dsTokens = <<"0xab", "0xcd">>

(***************************************************************************)
(* The upstream calls of one GET /tokens request (unnamed/part_006 lines   *)
(* 82-172, tokenService.ts, unnamed/part_008)                              *)
(***************************************************************************)

\* The upstream calls one chain of the request makes, in their order: the
\* explorer's tokentx, balance (the native balance), tokenbalance and
\* tokeninfo, then the price source.
UpCalls == <<"tokentx", "balance", "tokenbalance", "tokeninfo", "price">>

\* The calls given a timeout: tokenService.ts lines 191, 139 and 158.  The
\* axios.get of the native balance (lines 282-290) and that of fetchWithRetry
\* (part_008 line 118) are given none, and axios has none of its own.
HasTimeout(call) == call \in {"tokentx", "tokenbalance", "tokeninfo"}

\* The calls of the request: a chain and the name of the call.
UpstreamCalls == UpChains \X {UpCalls[i] : i \in 1..Len(UpCalls)}

\* A branch after its current call is over, by an answer, an error or its
\* timeout: every one of these is caught in the branch (tokenService.ts
\* lines 207-210, 217-220, 247-250, part_008 lines 198-200, 234-236), which
\* makes its next call or, after the last, returns its entry.
BranchGoesOn(branch) ==
  IF branch.made < Len(UpCalls)
  THEN [made |-> branch.made + 1, state |-> "pending"]
  ELSE [made |-> branch.made, state |-> "done"]

InitUpstream ==
  /\ McIdle
  /\ TsIdle
  /\ FwIdle
  /\ PosIdle
  /\ RqIdle
  /\ TbIdle
  /\ PvIdle
  /\ KcIdle
  /\ DsIdle
  /\ UpIdle
  /\ PbIdle

\* part_006 lines 82-83: Promise.all over the chains starts every branch,
\* and each makes its first call.  The calls of hung never answer.
TokensRequest(hung) ==
  /\ upPc = "idle"
  /\ upPc' = "waiting"
  /\ upHung' = hung
  /\ upBranch' = [c \in UpChains |-> [made |-> 1, state |-> "pending"]]
  /\ UNCHANGED nonUpVars

\* The upstream answers the current call of a chain, or fails it.
UpstreamAnswers(c) ==
  /\ upPc = "waiting"
  /\ upBranch[c].state = "pending"
  /\ <<c, UpCalls[upBranch[c].made]>> \notin upHung
  /\ upBranch' = [upBranch EXCEPT ![c] = BranchGoesOn(upBranch[c])]
  /\ UNCHANGED <<upPc, upHung>>
  /\ UNCHANGED nonUpVars

\* The timeout of the current call of a chain fires: axios rejects.
TimeoutFires(c) ==
  /\ upPc = "waiting"
  /\ upBranch[c].state = "pending"
  /\ <<c, UpCalls[upBranch[c].made]>> \in upHung
  /\ HasTimeout(UpCalls[upBranch[c].made])
  /\ upBranch' = [upBranch EXCEPT ![c] = BranchGoesOn(upBranch[c])]
  /\ UNCHANGED <<upPc, upHung>>
  /\ UNCHANGED nonUpVars

\* part_006 lines 157-172: Promise.all resolves once every branch has
\* returned, and the response is sent.
TokensRespond ==
  /\ upPc = "waiting"
  /\ \A c \in UpChains : upBranch[c].state = "done"
  /\ upPc' = "responded"
  /\ UNCHANGED <<upHung, upBranch>>
  /\ UNCHANGED nonUpVars

NextUpstream ==
  \/ /\ upPc = "idle"
     /\ \E hung \in SUBSET UpstreamCalls : TokensRequest(hung)
  \/ \E c \in UpChains : UpstreamAnswers(c)
  \/ \E c \in UpChains : TimeoutFires(c)
  \/ TokensRespond

SpecUpstream == InitUpstream /\ [][NextUpstream]_vars

\* The event loop runs every callback that is ready: an answer that has
\* come, a timer that has fired, the continuation of Promise.all.
SpecUpstreamFair ==
  /\ SpecUpstream
  /\ \A c \in UpChains : WF_vars(UpstreamAnswers(c))
  /\ \A c \in UpChains : WF_vars(TimeoutFires(c))
  /\ WF_vars(TokensRespond)

----------------------------------------------------------------------------
\* C29 as stated: a request that was received is answered in the end, even
\* if some upstream calls never answer.
C29_RequestIsAnswered == (upPc = "waiting") ~> (upPc = "responded")

====
